---------------------------- MODULE Spec2Model ----------------------------
(***************************************************************************)
(* A model of the xyproto/synth sample synthesis and DSP library.          *)
(*                                                                         *)
(* The library is a set of synchronous functions over sample buffers and   *)
(* Settings records.  One library call is one action: the caller picks the *)
(* arguments (pc = "idle"), the call runs to completion and leaves its     *)
(* results in ret (pc = "done"), and Reset starts the next call.           *)
(*                                                                         *)
(* float64 samples are modelled as exact rationals <<n, d>> in lowest      *)
(* terms with d > 0, so that clamping, averaging and scaling are computed  *)
(* as the code computes them.  The rounding of float64 operations is      *)
(* modelled where a result depends on it (NormalizeSamples), at a          *)
(* significand of MantissaBits bits instead of 53.                         *)
(***************************************************************************)
EXTENDS Integers, Sequences, FiniteSets, TLC

VARIABLES
    pc,      \* "idle": no call in progress; "done": a call has returned
    op,      \* name of the function called last
    args,    \* its arguments
    ret,     \* what it returned
    heap,    \* backing arrays of the slices alive in the aliasing scenarios
    ghost    \* snapshots taken by the caller in the aliasing scenarios

vars == <<pc, op, args, ret, heap, ghost>>

(***************************************************************************)
(* Bounds of the model.                                                    *)
(***************************************************************************)
MaxLen == 2          \* longest sample buffer
MaxBufs == 2         \* most buffers handed to one mixing call
MaxCombs == 5        \* most comb delays handed to SchroederReverb
MaxAllPass == 3      \* most all-pass delays handed to SchroederReverb
MaxRate == 4         \* highest sample rate
MaxChannels == 2     \* highest channel count
MaxWaveform == 7     \* highest WaveformType value a caller sets
MantissaBits == 5    \* significant bits a rounded float operation keeps
SubnormalBits == 12  \* the smallest positive rounded float is 2^-SubnormalBits

(***************************************************************************)
(* Rational arithmetic standing for float64 arithmetic.                    *)
(***************************************************************************)
RECURSIVE GCD(_, _)
GCD(a, b) == IF b = 0 THEN a ELSE GCD(b, a % b)

IAbs(n) == IF n < 0 THEN -n ELSE n

RNorm(n, d) ==
    LET sn == IF d < 0 THEN -n ELSE n
        sd == IAbs(d)
        g  == GCD(IAbs(sn), sd)
    IN  IF sn = 0 THEN <<0, 1>> ELSE <<sn \div g, sd \div g>>

R(n, d) == RNorm(n, d)
Zero == <<0, 1>>
One == <<1, 1>>
MinusOne == <<-1, 1>>

RAdd(a, b) == RNorm(a[1] * b[2] + b[1] * a[2], a[2] * b[2])
RSub(a, b) == RNorm(a[1] * b[2] - b[1] * a[2], a[2] * b[2])
RMul(a, b) == RNorm(a[1] * b[1], a[2] * b[2])
RDiv(a, b) == RNorm(a[1] * b[2], a[2] * b[1])
RNeg(a) == <<-a[1], a[2]>>
RAbs(a) == <<IAbs(a[1]), a[2]>>
RLt(a, b) == a[1] * b[2] < b[1] * a[2]
RLe(a, b) == a[1] * b[2] <= b[1] * a[2]
RGt(a, b) == RLt(b, a)
RInt(n) == <<n, 1>>

\* math.Sqrt on a non-negative value, rounded down to the precision of the
\* argument's denominator (exact whenever the root is rational).
ISqrt(k) == CHOOSE m \in 0..k : m * m <= k /\ (m + 1) * (m + 1) > k
RSqrt(a) == RNorm(ISqrt(a[1] * a[2]), a[2])

\* int(x) conversion of a float64: truncation toward zero.
RTrunc(a) == IF a[1] >= 0 THEN a[1] \div a[2] ELSE -((-a[1]) \div a[2])

InUnit(x) == RLe(MinusOne, x) /\ RLe(x, One)

\* make([]float64, n)
Zeros(n) == [i \in 1..n |-> Zero]

(***************************************************************************)
(* Rounding of a float64 operation: the exact result is replaced by the    *)
(* nearest value m * 2^e with m below 2^MantissaBits, ties to even m.      *)
(***************************************************************************)
Pow2(e) == IF e >= 0 THEN RInt(2 ^ e) ELSE R(1, 2 ^ (-e))

\* The exponent e that brings a > 0 to 2^(MantissaBits-1) <= a / 2^e < 2^MantissaBits.
\* As in float64, the exponent has a lowest value: below it the values are
\* the multiples of 2^(-SubnormalBits) (gradual underflow).
RECURSIVE FloatExp(_, _)
FloatExp(a, e) ==
    LET q == RDiv(a, Pow2(e))
    IN  IF RLt(q, Pow2(MantissaBits - 1)) /\ e > -SubnormalBits THEN FloatExp(a, e - 1)
        ELSE IF RLe(Pow2(MantissaBits), q) THEN FloatExp(a, e + 1)
        ELSE e

\* q >= 0 rounded to the nearest integer, ties to the even one.
RoundHalfEven(q) ==
    LET m == q[1] \div q[2]
        twice == 2 * (q[1] % q[2])
    IN  IF twice > q[2] \/ (twice = q[2] /\ m % 2 = 1) THEN m + 1 ELSE m

Fl(x) ==
    IF x = Zero THEN Zero
    ELSE LET e == FloatExp(RAbs(x), 0)
             v == RMul(RInt(RoundHalfEven(RDiv(RAbs(x), Pow2(e)))), Pow2(e))
         IN  IF x[1] < 0 THEN RNeg(v) ELSE v

(***************************************************************************)
(* Results.  A Go []float64 result is (nilbuf, buf): nilbuf tells the nil  *)
(* slice from an empty one.  err = "" is the nil error.                    *)
(***************************************************************************)
NoErr == ""
ErrNoSamples == "no samples provided"
ErrMismatch == "mismatched sample lengths"
ErrWeights == "number of weights must match number of samples"

NoPanic == ""
PanicDivZero == "integer divide by zero"
PanicIndex == "index out of range"
PanicNil == "nil pointer dereference"

Ok(buf) == [nilbuf |-> FALSE, buf |-> buf, err |-> NoErr, panic |-> NoPanic]
Panics(msg) == [nilbuf |-> TRUE, buf |-> <<>>, err |-> NoErr, panic |-> msg]

\* "return nil, errors.New(msg)": the partly filled buffer is dropped.
FailPartial(combined, msg) ==
    [nilbuf |-> FALSE, buf |-> combined, err |-> msg, panic |-> NoPanic]
Fail(combined, msg) ==
    [nilbuf |-> TRUE, buf |-> <<>>, err |-> msg, panic |-> NoPanic]

\* A clamp that forgets the lower bound.
ClampHighOnly(x) == IF RGt(x, One) THEN One ELSE x

\* The clamp every mixing function ends with.
Clamp(x) == IF RGt(x, One) THEN One ELSE IF RLt(x, MinusOne) THEN MinusOne ELSE x

(***************************************************************************)
(* LinearSummation                                                         *)
(***************************************************************************)
RECURSIVE LinearInner(_, _, _, _, _)
LinearInner(samples, i, j, numSamples, sum) ==
    IF j > Len(samples) THEN [mismatch |-> FALSE, sum |-> sum]
    ELSE IF Len(samples[j]) # numSamples THEN [mismatch |-> TRUE, sum |-> sum]
    ELSE LinearInner(samples, i, j + 1, numSamples, RAdd(sum, samples[j][i]))

\* A mix that clamps the sum instead of the average.
RECURSIVE LinearOuterNoAverage(_, _, _, _)
LinearOuterNoAverage(samples, i, numSamples, combined) ==
    IF i > numSamples THEN Ok(combined)
    ELSE LET r == LinearInner(samples, i, 1, numSamples, Zero)
         IN  IF r.mismatch THEN Fail(combined, ErrMismatch)
             ELSE LinearOuterNoAverage(samples, i + 1, numSamples,
                      [combined EXCEPT ![i] = Clamp(r.sum)])

RECURSIVE LinearOuter(_, _, _, _)
LinearOuter(samples, i, numSamples, combined) ==
    IF i > numSamples THEN Ok(combined)
    ELSE LET r == LinearInner(samples, i, 1, numSamples, Zero)
         IN  IF r.mismatch THEN Fail(combined, ErrMismatch)
             ELSE LinearOuter(samples, i + 1, numSamples,
                      [combined EXCEPT ![i] = Clamp(RDiv(r.sum, RInt(Len(samples))))])

LinearSummation(samples) ==
    IF Len(samples) = 0 THEN Fail(<<>>, ErrNoSamples)
    ELSE LinearOuter(samples, 1, Len(samples[1]), Zeros(Len(samples[1])))

(***************************************************************************)
(* WeightedSummation                                                       *)
(***************************************************************************)
RECURSIVE WeightedInner(_, _, _, _, _, _)
WeightedInner(weights, samples, i, j, numSamples, sum) ==
    IF j > Len(samples) THEN [mismatch |-> FALSE, sum |-> sum]
    ELSE IF Len(samples[j]) # numSamples THEN [mismatch |-> TRUE, sum |-> sum]
    ELSE WeightedInner(weights, samples, i, j + 1, numSamples,
                       RAdd(sum, RMul(samples[j][i], weights[j])))

RECURSIVE WeightedOuter(_, _, _, _, _)
WeightedOuter(weights, samples, i, numSamples, combined) ==
    IF i > numSamples THEN Ok(combined)
    ELSE LET r == WeightedInner(weights, samples, i, 1, numSamples, Zero)
         IN  IF r.mismatch THEN Fail(combined, ErrMismatch)
             ELSE WeightedOuter(weights, samples, i + 1, numSamples,
                      [combined EXCEPT ![i] = Clamp(r.sum)])

\* A weight check that tolerates surplus weights.
WeightedSummationSurplusWeights(weights, samples) ==
    IF Len(weights) < Len(samples) THEN Fail(<<>>, ErrWeights)
    ELSE IF Len(samples) = 0 THEN Fail(<<>>, ErrNoSamples)
    ELSE WeightedOuter(weights, samples, 1, Len(samples[1]), Zeros(Len(samples[1])))

WeightedSummation(weights, samples) ==
    IF Len(weights) # Len(samples) THEN Fail(<<>>, ErrWeights)
    ELSE IF Len(samples) = 0 THEN Fail(<<>>, ErrNoSamples)
    ELSE WeightedOuter(weights, samples, 1, Len(samples[1]), Zeros(Len(samples[1])))

(***************************************************************************)
(* RMSMixing                                                               *)
(***************************************************************************)
RECURSIVE RMSInner(_, _, _, _, _)
RMSInner(samples, i, j, numSamples, sumSquares) ==
    IF j > Len(samples) THEN [mismatch |-> FALSE, sum |-> sumSquares]
    ELSE IF Len(samples[j]) # numSamples THEN [mismatch |-> TRUE, sum |-> sumSquares]
    ELSE RMSInner(samples, i, j + 1, numSamples,
                  RAdd(sumSquares, RMul(samples[j][i], samples[j][i])))

RECURSIVE RMSOuter(_, _, _, _)
RMSOuter(samples, i, numSamples, combined) ==
    IF i > numSamples THEN Ok(combined)
    ELSE LET r == RMSInner(samples, i, 1, numSamples, Zero)
         IN  IF r.mismatch THEN Fail(combined, ErrMismatch)
             ELSE RMSOuter(samples, i + 1, numSamples,
                      [combined EXCEPT ![i] =
                          Clamp(RSqrt(RDiv(r.sum, RInt(Len(samples)))))])

RMSMixing(samples) ==
    IF Len(samples) = 0 THEN Fail(<<>>, ErrNoSamples)
    ELSE RMSOuter(samples, 1, Len(samples[1]), Zeros(Len(samples[1])))

(***************************************************************************)
(* Distortion and dynamics: Drive (gain and clip over a buffer),           *)
(* Settings.ApplyDrive / audioeffects.Drive (soft saturation of one        *)
(* sample), Limiter, FindPeakAmplitude, NormalizeSamples.                  *)
(***************************************************************************)
Drive(samples, gain) ==
    [i \in 1..Len(samples) |-> Clamp(RMul(samples[i], gain))]

ApplyDrive(sample, drive) ==
    IF RGt(drive, Zero)
    THEN RDiv(RMul(sample, RAdd(One, drive)), RAdd(One, RMul(drive, RAbs(sample))))
    ELSE sample

\* A limiter that turns samples outside [-1,1] down by a quarter instead of
\* clipping them.
LimiterAttenuating(samples) ==
    [i \in 1..Len(samples) |->
        IF InUnit(samples[i]) THEN samples[i] ELSE RMul(samples[i], R(3, 4))]

Limiter(samples) ==
    [i \in 1..Len(samples) |-> Clamp(samples[i])]

RECURSIVE PeakFrom(_, _, _)
PeakFrom(samples, i, maxAmplitude) ==
    IF i > Len(samples) THEN maxAmplitude
    ELSE PeakFrom(samples, i + 1,
                  IF RGt(RAbs(samples[i]), maxAmplitude) THEN RAbs(samples[i])
                  ELSE maxAmplitude)

FindPeakAmplitude(samples) == PeakFrom(samples, 1, Zero)

\* synth.NormalizeSamples: the input slice itself comes back when its peak is 0.
NormalizeReturnsInput(samples, targetPeak) == FindPeakAmplitude(samples) = Zero

\* A normalisation that always scales the peak to 1.
NormalizeSamplesToUnit(samples, targetPeak) ==
    IF NormalizeReturnsInput(samples, targetPeak) THEN samples
    ELSE LET scale == Fl(RDiv(One, FindPeakAmplitude(samples)))
         IN  [i \in 1..Len(samples) |-> Clamp(Fl(RMul(samples[i], scale)))]

NormalizeSamples(samples, targetPeak) ==
    IF NormalizeReturnsInput(samples, targetPeak) THEN samples
    ELSE LET scale == Fl(RDiv(targetPeak, FindPeakAmplitude(samples)))
         IN  [i \in 1..Len(samples) |-> Clamp(Fl(RMul(samples[i], scale)))]

\* audioeffects.NormalizeSamples: a non-positive target is refused by
\* returning the input unmodified.
AudioeffectsNormalizeSamples(samples, targetPeak) ==
    IF RLe(targetPeak, Zero) THEN samples
    ELSE IF FindPeakAmplitude(samples) = Zero THEN samples
    ELSE LET scale == Fl(RDiv(targetPeak, FindPeakAmplitude(samples)))
         IN  [i \in 1..Len(samples) |-> Clamp(Fl(RMul(samples[i], scale)))]

(***************************************************************************)
(* audioeffects.SidechainCompressor.  attackCoeff and releaseCoeff are the *)
(* values of math.Exp(-1/(time*sampleRate)), which lie strictly between 0  *)
(* and 1 for positive times; the caller of the model picks them.           *)
(***************************************************************************)
RECURSIVE SidechainLoop(_, _, _, _, _, _, _, _, _)
SidechainLoop(target, trigger, threshold, ratio, attackCoeff, releaseCoeff, i, gain, compressed) ==
    IF i > Len(target) THEN compressed
    ELSE LET absTrigger == RAbs(trigger[i])
             followed ==
                 IF RGt(absTrigger, gain)
                 THEN RAdd(RMul(attackCoeff, gain),
                           RMul(RSub(One, attackCoeff), absTrigger))
                 ELSE RAdd(RMul(releaseCoeff, gain),
                           RMul(RSub(One, releaseCoeff), absTrigger))
             reduced == RAdd(threshold, RDiv(RSub(followed, threshold), ratio))
             newGain ==
                 IF RGt(followed, threshold)
                 THEN (IF RLt(RDiv(reduced, reduced), Zero) THEN Zero
                       ELSE RDiv(reduced, reduced))
                 ELSE One
         IN  SidechainLoop(target, trigger, threshold, ratio, attackCoeff,
                           releaseCoeff, i + 1, newGain,
                           [compressed EXCEPT ![i] = RMul(target[i], newGain)])

SidechainCompressor(target, trigger, threshold, ratio, attackCoeff, releaseCoeff) ==
    IF Len(target) # Len(trigger) THEN Ok(target)
    ELSE Ok(SidechainLoop(target, trigger, threshold, ratio, attackCoeff,
                          releaseCoeff, 1, One, Zeros(Len(target))))

(***************************************************************************)
(* SchroederReverb: four parallel comb filters, then two all-pass filters  *)
(* in series.  Go's i % 0 panics, as does make with a negative length.     *)
(***************************************************************************)
ErrReverb == "SchroederReverb expects 4 comb delays and 2 all-pass delays"
PanicMakeLen == "makeslice: len out of range"

\* One sample through the four comb filters (inner loop over j).
RECURSIVE CombInner(_, _, _, _, _, _, _)
CombInner(samples, decayFactor, combDelays, i, j, combBuffers, acc) ==
    IF j > Len(combBuffers) THEN [combBuffers |-> combBuffers, acc |-> acc]
    ELSE LET delayIndex == ((i - 1) % combDelays[j]) + 1
             written == RAdd(samples[i], RMul(combBuffers[j][delayIndex], decayFactor))
         IN  CombInner(samples, decayFactor, combDelays, i, j + 1,
                       [combBuffers EXCEPT ![j][delayIndex] = written],
                       RAdd(acc, written))

RECURSIVE CombOuter(_, _, _, _, _, _)
CombOuter(samples, decayFactor, combDelays, i, combBuffers, combFiltered) ==
    IF i > Len(samples) THEN combFiltered
    ELSE LET r == CombInner(samples, decayFactor, combDelays, i, 1, combBuffers, Zero)
         IN  CombOuter(samples, decayFactor, combDelays, i + 1, r.combBuffers,
                       [combFiltered EXCEPT ![i] = r.acc])

\* One all-pass filter over the whole buffer.
RECURSIVE AllPassLoop(_, _, _, _, _, _)
AllPassLoop(reverbOutput, decayFactor, delay, i, buffer, output) ==
    IF i > Len(reverbOutput) THEN output
    ELSE LET delayIndex == ((i - 1) % delay) + 1
             bufOut == buffer[delayIndex]
             written == RAdd(reverbOutput[i], RMul(bufOut, decayFactor))
         IN  AllPassLoop(reverbOutput, decayFactor, delay, i + 1,
                         [buffer EXCEPT ![delayIndex] = written],
                         [output EXCEPT ![i] = RSub(written, bufOut)])

RECURSIVE AllPassChain(_, _, _, _)
AllPassChain(reverbOutput, decayFactor, allPassDelays, j) ==
    IF j > Len(allPassDelays) THEN reverbOutput
    ELSE AllPassChain(
             AllPassLoop(reverbOutput, decayFactor, allPassDelays[j], 1,
                         Zeros(allPassDelays[j]), Zeros(Len(reverbOutput))),
             decayFactor, allPassDelays, j + 1)

\* A count check that only asks for enough delays.
ReverbConfigAtLeast(combDelays, allPassDelays) ==
    Len(combDelays) >= 4 /\ Len(allPassDelays) >= 2

ReverbConfigOk(combDelays, allPassDelays) ==
    Len(combDelays) = 4 /\ Len(allPassDelays) = 2

SchroederReverb(samples, decayFactor, combDelays, allPassDelays) ==
    IF ~ReverbConfigOk(combDelays, allPassDelays) THEN Fail(<<>>, ErrReverb)
    ELSE IF \E j \in 1..4 : combDelays[j] < 0 THEN Panics(PanicMakeLen)
    ELSE IF Len(samples) > 0 /\ (\E j \in 1..4 : combDelays[j] = 0)
         THEN Panics(PanicDivZero)
    ELSE IF \E j \in 1..2 : allPassDelays[j] < 0 THEN Panics(PanicMakeLen)
    ELSE IF Len(samples) > 0 /\ (\E j \in 1..2 : allPassDelays[j] = 0)
         THEN Panics(PanicDivZero)
    ELSE Ok(AllPassChain(
                CombOuter(samples, decayFactor, combDelays, 1,
                          [j \in 1..4 |-> Zeros(combDelays[j])], Zeros(Len(samples))),
                decayFactor, allPassDelays, 1))

(***************************************************************************)
(* Settings construction.                                                  *)
(***************************************************************************)
WaveSine == 0
WaveTriangle == 1
WaveSawtooth == 2
WaveSquare == 3
WaveWhiteNoise == 4
WavePinkNoise == 5
WaveBrownNoise == 6

ErrInvalidSettings == "invalid sample rate, duration or channels"
ErrInvalidSnare == "invalid sample rate, bit depth, or channels"

NilSettings(msg) == [nilcfg |-> TRUE, cfg |-> [none |-> TRUE], err |-> msg]
SomeSettings(cfg) == [nilcfg |-> FALSE, cfg |-> cfg, err |-> NoErr]

\* A validity check that forgets the channel count.
SettingsInvalidNoChannels(duration, sampleRate, channels) ==
    sampleRate <= 0 \/ RLe(duration, Zero)

SettingsInvalid(duration, sampleRate, channels) ==
    sampleRate <= 0 \/ RLe(duration, Zero) \/ channels <= 0

NewSettings(startFreq, endFreq, duration, sampleRate, bitDepth, channels) ==
    IF SettingsInvalid(duration, sampleRate, channels)
    THEN NilSettings(ErrInvalidSettings)
    ELSE SomeSettings([
             SampleRate |-> sampleRate, BitDepth |-> bitDepth, Channels |-> channels,
             StartFreq |-> startFreq, EndFreq |-> endFreq, Duration |-> duration,
             WaveformType |-> WaveSine, NoiseAmount |-> Zero,
             Attack |-> R(5, 1000), Decay |-> R(2, 10), Sustain |-> R(1, 10),
             Release |-> R(1, 10), Drive |-> R(2, 10),
             OscillatorLevels |-> <<One>>,
             FilterBands |-> <<RInt(200), RInt(1000), RInt(3000)>>])

SnareInvalid(sampleRate, bitDepth, channels) ==
    sampleRate <= 0 \/ bitDepth <= 0 \/ channels <= 0

NewSnareSettings(sampleRate, bitDepth, channels) ==
    IF SnareInvalid(sampleRate, bitDepth, channels)
    THEN NilSettings(ErrInvalidSnare)
    ELSE SomeSettings([
             SampleRate |-> sampleRate, BitDepth |-> bitDepth, Channels |-> channels,
             StartFreq |-> RInt(300), EndFreq |-> RInt(100), Duration |-> R(1, 2),
             WaveformType |-> WaveSquare, NoiseAmount |-> R(7, 10),
             Attack |-> R(5, 1000), Decay |-> R(1, 10), Sustain |-> Zero,
             Release |-> R(5, 100), Drive |-> R(3, 10),
             OscillatorLevels |-> <<One>>,
             FilterBands |-> <<RInt(500), RInt(2000), RInt(6000)>>])

\* A preset factory: NewSettings, its error passed on, then the preset's values.
New808Kick(duration, sampleRate, bitDepth, channels) ==
    LET r == NewSettings(RInt(55), RInt(30), duration, sampleRate, bitDepth, channels)
    IN  IF r.err # NoErr THEN NilSettings(r.err)
        ELSE SomeSettings([r.cfg EXCEPT !.WaveformType = WaveSine,
                                         !.Attack = Zero, !.Decay = R(6, 10),
                                         !.Sustain = Zero, !.Release = R(4, 10),
                                         !.Drive = R(5, 10)])

\* The SoundType enumeration of the random factory.
Kick == 0
Clap == 1
Snare == 2
ClosedHH == 3
OpenHH == 4
Rimshot == 5
Tom == 6
Percussion == 7
Ride == 8
Crash == 9
Bass == 10
Xylophone == 11
Lead == 12

\* A write through the nil *Settings that a failed NewSettings returned.
RandomPanics == [nilcfg |-> TRUE, cfg |-> [none |-> TRUE], err |-> NoErr, panic |-> PanicNil]
RandomSettings(cfg) == [nilcfg |-> FALSE, cfg |-> cfg, err |-> NoErr, panic |-> NoPanic]

\* Per case of NewRandom: the start frequency, end frequency and duration it
\* hands to NewSettings, and the factor of its random Drive.
RandomBase(soundType) ==
    CASE soundType = Kick       -> <<50, 30, One, R(7, 10)>>
      [] soundType = Clap       -> <<300, 200, R(3, 10), R(5, 10)>>
      [] soundType = Snare      -> <<300, 150, R(1, 2), R(7, 10)>>
      [] soundType = ClosedHH   -> <<8000, 5000, R(1, 10), R(5, 10)>>
      [] soundType = OpenHH     -> <<10000, 7000, R(3, 10), R(6, 10)>>
      [] soundType = Rimshot    -> <<4000, 2000, R(2, 10), R(6, 10)>>
      [] soundType = Tom        -> <<200, 100, R(4, 10), R(5, 10)>>
      [] soundType = Percussion -> <<1000, 500, R(2, 10), R(5, 10)>>
      [] soundType = Ride       -> <<12000, 7000, R(4, 10), R(6, 10)>>
      [] soundType = Crash      -> <<15000, 10000, R(3, 10), R(7, 10)>>
      [] soundType = Bass       -> <<60, 30, One, R(7, 10)>>
      [] soundType = Xylophone  -> <<1000, 500, R(2, 10), R(5, 10)>>
      [] soundType = Lead       -> <<880, 440, R(1, 2), R(8, 10)>>
      [] OTHER                  -> <<500, 250, R(1, 2), R(6, 10)>>

\* NewRandom: "cfg, _ := NewSettings(...)" drops the error, and the next
\* statement, cfg.SoundType = soundType, writes through cfg.  rnd is the value
\* rand.Float64() gives for Drive; the other randomised fields are written
\* through the same pointer after it.
NewRandom(soundType, sampleRate, bitDepth, channels, rnd) ==
    LET b == RandomBase(soundType)
        r == NewSettings(RInt(b[1]), RInt(b[2]), b[3], sampleRate, bitDepth, channels)
    IN  IF r.nilcfg THEN RandomPanics
        ELSE RandomSettings([r.cfg EXCEPT !.Drive = RMul(rnd, b[4])]
                            @@ [SoundType |-> soundType])

\* NewRandomKick: the first statement after the dropped error is cfg.Attack = ...
NewRandomKick(sampleRate, bitDepth, channels, rnd) ==
    LET r == NewSettings(RInt(50), RInt(30), One, sampleRate, bitDepth, channels)
    IN  IF r.nilcfg THEN RandomPanics
        ELSE RandomSettings([r.cfg EXCEPT !.Attack = RMul(rnd, R(2, 100)),
                                          !.Drive = rnd])

\* NewRandomSnare: the first statement after the dropped error is cfg.NoiseAmount = ...
NewRandomSnare(sampleRate, bitDepth, channels, rnd) ==
    LET r == NewSettings(RInt(300), RInt(100), R(1, 2), sampleRate, bitDepth, channels)
    IN  IF r.nilcfg THEN RandomPanics
        ELSE RandomSettings([r.cfg EXCEPT !.NoiseAmount = RAdd(R(1, 2), RMul(rnd, R(1, 2))),
                                          !.Sustain = Zero,
                                          !.Drive = rnd])

(***************************************************************************)
(* Voice synthesis.  The numeric value of an oscillator sample (math.Sin,  *)
(* math.Pow, rand) is not computed: a voice's buffer records, per sample,  *)
(* the set of layers that were summed into it ({} is the silence make      *)
(* leaves), and the voice's result records the buffer stages applied, in   *)
(* order.  Length, control flow and error returns are those of the code.   *)
(***************************************************************************)
ErrUnsupported(w) == "unsupported waveform type: " \o ToString(w)

Silence(n) == [i \in 1..n |-> {}]

\* numSamples := int(float64(cfg.SampleRate) * cfg.Duration)
NumSamples(cfg) == RTrunc(RMul(RInt(cfg.SampleRate), cfg.Duration))

Voice(buf, stages) ==
    [nilbuf |-> FALSE, buf |-> buf, err |-> NoErr, panic |-> NoPanic, stages |-> stages]

VoiceFail(samples, msg) == Fail(samples, msg) @@ [stages |-> <<>>]

\* The waveform switch of GenerateKick / GenerateKickWaveform / GenerateSweepWaveform.
KickOsc(w) ==
    CASE w = WaveSine -> "sine"
      [] w = WaveTriangle -> "triangle"
      [] w = WaveSawtooth -> "sawtooth"
      [] w = WaveSquare -> "square"
      [] w = WaveWhiteNoise -> "white"
      [] w = WavePinkNoise -> "pink"
      [] w = WaveBrownNoise -> "brown"
      [] OTHER -> "unsupported"

\* The waveform switch of GenerateSnare: the four tonal waveforms only.
SnareOsc(w) ==
    CASE w = WaveSine -> "sine"
      [] w = WaveTriangle -> "triangle"
      [] w = WaveSawtooth -> "sawtooth"
      [] w = WaveSquare -> "square"
      [] OTHER -> "unsupported"

\* The switch of the first GenerateKick, which has no default branch: the
\* sample keeps its zero value.
KickOscV1(w) ==
    CASE w = WaveSine -> {"sine"}
      [] w = WaveTriangle -> {"triangle"}
      [] w = WaveSawtooth -> {"sawtooth"}
      [] w = WaveSquare -> {"square"}
      [] OTHER -> {}

RECURSIVE KickLoop(_, _, _, _)
KickLoop(cfg, i, numSamples, samples) ==
    IF i > numSamples THEN Voice(samples, <<"Limiter">>)
    ELSE IF KickOsc(cfg.WaveformType) = "unsupported"
         THEN VoiceFail(samples, ErrUnsupported(cfg.WaveformType))
    ELSE KickLoop(cfg, i + 1, numSamples,
                  [samples EXCEPT ![i] = {KickOsc(cfg.WaveformType)}])

GenerateKick(cfg) == KickLoop(cfg, 1, NumSamples(cfg), Silence(NumSamples(cfg)))

GenerateKickV1(cfg) ==
    Voice([i \in 1..NumSamples(cfg) |-> KickOscV1(cfg.WaveformType)], <<"Limiter">>)

VoicePanics(msg) == Panics(msg) @@ [stages |-> <<>>]

\* "sample *= cfg.OscillatorLevels[0]" with no length test: the index
\* expression panics on an empty slice.
FirstLevel(levels) ==
    IF Len(levels) > 0 THEN [panic |-> NoPanic, gain |-> levels[1]]
    ELSE [panic |-> PanicIndex, gain |-> One]

\* "if len(cfg.OscillatorLevels) > 0 { sample *= cfg.OscillatorLevels[0] }":
\* an empty slice leaves the sample as it is.
FirstLevelIfAny(levels) ==
    IF Len(levels) > 0 THEN [panic |-> NoPanic, gain |-> levels[1]]
    ELSE [panic |-> NoPanic, gain |-> One]

\* The oscillator level applied in each pass of a kick loop that ran as
\* voice: gains[i] is the factor sample i was multiplied by.  The level is
\* read in the loop body, so a loop of no passes reads nothing, and a pass
\* that returns the waveform error returns before the read.
KickLevels(voice, lv) ==
    IF voice.err # NoErr \/ Len(voice.buf) = 0 THEN voice @@ [gains |-> <<>>]
    ELSE IF lv.panic # NoPanic THEN VoicePanics(lv.panic) @@ [gains |-> <<>>]
    ELSE voice @@ [gains |-> [i \in 1..Len(voice.buf) |-> lv.gain]]

\* GenerateKickWaveform of synth.go: the seven waveforms and the guarded read.
GenerateKickWaveform(cfg) ==
    KickLevels(GenerateKick(cfg), FirstLevelIfAny(cfg.OscillatorLevels))

\* GenerateKickWaveform of the older synth.go (GenerateKick of that file has
\* the same loop before it saves): four waveforms, the read unguarded.
GenerateKickWaveformV1(cfg) ==
    KickLevels(GenerateKickV1(cfg), FirstLevel(cfg.OscillatorLevels))

\* tonalSamples := int(cfg.Duration * float64(cfg.SampleRate) * 0.3)
TonalSamples(cfg) == RTrunc(RMul(RMul(cfg.Duration, RInt(cfg.SampleRate)), R(3, 10)))

RECURSIVE SnareTonalLoop(_, _, _, _)
SnareTonalLoop(cfg, i, tonalSamples, samples) ==
    IF i > tonalSamples THEN [failed |-> FALSE, samples |-> samples]
    ELSE IF SnareOsc(cfg.WaveformType) = "unsupported"
         THEN [failed |-> TRUE, samples |-> samples]
    ELSE SnareTonalLoop(cfg, i + 1, tonalSamples,
                        [samples EXCEPT ![i] = @ \cup {SnareOsc(cfg.WaveformType)}])

GenerateSnare(cfg) ==
    LET tonal == SnareTonalLoop(cfg, 1, TonalSamples(cfg), Silence(NumSamples(cfg)))
    IN  IF tonal.failed
        THEN VoiceFail(tonal.samples, ErrUnsupported(cfg.WaveformType))
        ELSE Voice([i \in 1..NumSamples(cfg) |-> tonal.samples[i] \cup {"pink"}],
                   <<"ApplyEnvelope", "Drive", "Limiter">>)

\* GenerateTom and GenerateXylophone never read cfg.WaveformType.
GenerateTom(cfg) ==
    Voice([i \in 1..NumSamples(cfg) |-> {"sine", "pink"}],
          <<"ApplyEnvelope", "Drive", "Limiter">>)

GenerateXylophone(cfg) ==
    Voice([i \in 1..NumSamples(cfg) |-> {"sine"}],
          <<"ApplyEnvelope", "SchroederReverb", "Limiter">>)

\* The mixing loop of one clap burst: for i := 0; i < burstSamples; i++, with
\* the guard startIndex+i < numSamples (indices are Go's, from 0).
RECURSIVE ClapMix(_, _, _, _, _)
ClapMix(samples, startIndex, burstSamples, i, numSamples) ==
    IF i >= burstSamples THEN samples
    ELSE ClapMix(IF startIndex + i < numSamples
                 THEN [samples EXCEPT ![startIndex + i + 1] = @ \cup {"white"}]
                 ELSE samples,
                 startIndex, burstSamples, i + 1, numSamples)

\* The burst loop of GenerateClap.  GenerateWhiteNoise makes a slice of
\* burstSamples values, which panics when burstSamples is negative.
RECURSIVE ClapBursts(_, _, _)
ClapBursts(cfg, burst, samples) ==
    LET delayBetweenBursts == R(2, 100)
        burstDuration == RDiv(RSub(cfg.Duration, RMul(RInt(2), delayBetweenBursts)), RInt(3))
        startIndex == RTrunc(RMul(RMul(RInt(burst), delayBetweenBursts), RInt(cfg.SampleRate)))
        burstSamples == RTrunc(RMul(burstDuration, RInt(cfg.SampleRate)))
    IN  IF burst >= 3 THEN Voice(samples, <<"Limiter">>)
        ELSE IF burstSamples < 0 THEN VoicePanics(PanicMakeLen)
        ELSE ClapBursts(cfg, burst + 1,
                        ClapMix(samples, startIndex, burstSamples, 0, NumSamples(cfg)))

\* A clap that returns the sum of its bursts without the limiter pass.
GenerateClapUnlimited(cfg) ==
    [ClapBursts(cfg, 0, Silence(NumSamples(cfg))) EXCEPT !.stages = <<>>]

GenerateClap(cfg) == ClapBursts(cfg, 0, Silence(NumSamples(cfg)))

GenerateClosedHH(cfg) ==
    Voice([i \in 1..NumSamples(cfg) |-> {"white"}],
          <<"ApplyEnvelope", "Drive", "ApplyFadeOut", "Limiter">>)

GenerateOpenHH(cfg) ==
    Voice([i \in 1..NumSamples(cfg) |-> {"white"}],
          <<"ApplyEnvelope", "Drive", "ApplyFadeOut", "Limiter">>)

GenerateRimshot(cfg) ==
    Voice([i \in 1..NumSamples(cfg) |-> {"white"}],
          <<"BandPassFilter", "ApplyEnvelope", "Drive", "Limiter">>)

GeneratePercussion(cfg) ==
    Voice([i \in 1..NumSamples(cfg) |-> {"sine", "pink"}],
          <<"ApplyEnvelope", "Drive", "Limiter">>)

GenerateRide(cfg) ==
    Voice([i \in 1..NumSamples(cfg) |-> {"white"}],
          <<"HighPassFilter", "ApplyEnvelope", "Drive", "Limiter">>)

GenerateCrash(cfg) ==
    Voice([i \in 1..NumSamples(cfg) |-> {"white"}],
          <<"BandPassFilter", "ApplyEnvelope", "Drive", "Limiter">>)

\* GenerateBass and GenerateLead: two detuned sawtooth oscillators.
GenerateBass(cfg) ==
    Voice([i \in 1..NumSamples(cfg) |-> {"sawtooth"}],
          <<"LowPassFilter", "ApplyEnvelope", "Drive", "Limiter">>)

GenerateLead(cfg) ==
    Voice([i \in 1..NumSamples(cfg) |-> {"sawtooth"}],
          <<"ApplyEnvelope", "ApplyFrequencyModulation", "Drive", "Limiter">>)

ErrUnknownSound(t) == "unknown sound type: " \o t

\* Settings.Generate: the dispatch on the name of the voice.
Generate(cfg, t) ==
    CASE t = "kick" -> GenerateKick(cfg)
      [] t = "clap" -> GenerateClap(cfg)
      [] t = "snare" -> GenerateSnare(cfg)
      [] t = "closed_hh" -> GenerateClosedHH(cfg)
      [] t = "open_hh" -> GenerateOpenHH(cfg)
      [] t = "rimshot" -> GenerateRimshot(cfg)
      [] t = "tom" -> GenerateTom(cfg)
      [] t = "percussion" -> GeneratePercussion(cfg)
      [] t = "ride" -> GenerateRide(cfg)
      [] t = "crash" -> GenerateCrash(cfg)
      [] t = "bass" -> GenerateBass(cfg)
      [] t = "xylophone" -> GenerateXylophone(cfg)
      [] t = "lead" -> GenerateLead(cfg)
      [] OTHER -> VoiceFail(<<>>, ErrUnknownSound(t))

\* What the last of a voice's buffer stages returns, given the sample values
\* the stages before it left in the buffer: the limiter clamps them, and a
\* voice that ends without the limiter returns them as they are.
FinalStage(stages, before) ==
    IF stages # <<>> /\ stages[Len(stages)] = "Limiter" THEN Limiter(before)
    ELSE before

(***************************************************************************)
(* Noise generators.  rand.Float64() is an input: rands holds the values   *)
(* in [0,1) it returned, one per sample, so the requested length is        *)
(* Len(rands).  Every float64 operation of the filters is rounded (Fl).    *)
(***************************************************************************)
NoiseNone == 0
NoiseWhite == 1
NoisePink == 2
NoiseBrown == 3

FAdd(a, b) == Fl(RAdd(a, b))
FSub(a, b) == Fl(RSub(a, b))
FMul(a, b) == Fl(RMul(a, b))
FDiv(a, b) == Fl(RDiv(a, b))

\* A decimal literal of the source, n / 10^digits.
Dec(n, digits) == Fl(R(n, 10 ^ digits))

\* white := rand.Float64()*2 - 1
White(rnd) == FSub(FMul(rnd, RInt(2)), One)

\* A clamp that forgets the lower bound.
NoiseClampHighOnly(value, amount) ==
    IF RGt(value, amount) THEN amount ELSE value

\* if value > amount { value = amount } else if value < -amount { value = -amount }
NoiseClamp(value, amount) ==
    IF RGt(value, amount) THEN amount
    ELSE IF RLt(value, RNeg(amount)) THEN RNeg(amount)
    ELSE value

GenerateWhiteNoise(rands, amount) ==
    [i \in 1..Len(rands) |-> FMul(White(rands[i]), amount)]

\* The decay and the gain of the filter stages b0..b4 of the pink noise.
PinkDecay == <<Dec(99886, 5), Dec(99332, 5), Dec(969, 3), Dec(8665, 4), Dec(55, 2)>>
PinkGain == <<Dec(555179, 7), Dec(750759, 7), Dec(153852, 6), Dec(3104856, 7), Dec(5329522, 7)>>

\* b0 + b1 + ... : the terms added from left to right, each sum rounded.
RECURSIVE FSum(_, _, _)
FSum(terms, k, acc) ==
    IF k > Len(terms) THEN acc ELSE FSum(terms, k + 1, FAdd(acc, terms[k]))

\* The new value of the filter stage b[k]: b0..b4 decay and take their share
\* of the white sample, b5 does so with negative factors, b6 is kept for the sum.
PinkStage(k, b, white) ==
    IF k <= 5 THEN FAdd(FMul(PinkDecay[k], b[k]), FMul(white, PinkGain[k]))
    ELSE IF k = 6 THEN FSub(FMul(RNeg(Dec(7616, 4)), b[6]), FMul(white, Dec(16898, 6)))
    ELSE b[7]

\* sum := b0 + ... + b6 + white*0.5362 over the updated stages (b6 still the
\* one of the previous pass), then value := sum * amount / 3.5.
PinkValue(nb, white, amount) ==
    FDiv(FMul(FSum(Append(nb, FMul(white, Dec(5362, 4))), 2, nb[1]), amount), Dec(35, 1))

\* b6 = white * 0.115926, after the sum was taken.
PinkState(nb, white) == [nb EXCEPT ![7] = FMul(white, Dec(115926, 6))]

PinkSample(b, value, amount) ==
    [b |-> b, value |-> value, sample |-> NoiseClamp(value, amount)]

PinkOut(nb, white, amount) ==
    PinkSample(PinkState(nb, white), PinkValue(nb, white, amount), amount)

\* One iteration of the pink noise loop on the state b = <<b0, ..., b6>>.
PinkStep(b, white, amount) ==
    PinkOut([k \in 1..7 |-> PinkStage(k, b, white)], white, amount)

RECURSIVE PinkLoop(_, _, _, _, _)
PinkNext(rands, amount, i, s, noise) ==
    PinkLoop(rands, amount, i + 1, s.b, [noise EXCEPT ![i] = s.sample])

PinkLoop(rands, amount, i, b, noise) ==
    IF i > Len(rands) THEN noise
    ELSE PinkNext(rands, amount, i, PinkStep(b, White(rands[i]), amount), noise)

GeneratePinkNoise(rands, amount) ==
    PinkLoop(rands, amount, 1, [k \in 1..7 |-> Zero], Zeros(Len(rands)))

\* lastOutput = (lastOutput + 0.02*white) / 1.02
BrownValue(lastOutput, white) ==
    FDiv(FAdd(lastOutput, FMul(Dec(2, 2), white)), Dec(102, 2))

RECURSIVE BrownLoop(_, _, _, _, _)
BrownNext(rands, amount, i, value, noise) ==
    BrownLoop(rands, amount, i + 1, value,
              [noise EXCEPT ![i] = NoiseClamp(FMul(value, Dec(35, 1)), amount)])

\* white := (rand.Float64()*2 - 1) * amount / 10
BrownLoop(rands, amount, i, lastOutput, noise) ==
    IF i > Len(rands) THEN noise
    ELSE BrownNext(rands, amount, i,
                   BrownValue(lastOutput, FDiv(FMul(White(rands[i]), amount), RInt(10))),
                   noise)

GenerateBrownNoise(rands, amount) ==
    BrownLoop(rands, amount, 1, Zero, Zeros(Len(rands)))

\* GenerateNoise: the switch on the noise type has no branch for NoiseNone.
GenerateNoise(noiseType, rands, amount) ==
    CASE noiseType = NoiseWhite -> GenerateWhiteNoise(rands, amount)
      [] noiseType = NoisePink -> GeneratePinkNoise(rands, amount)
      [] noiseType = NoiseBrown -> GenerateBrownNoise(rands, amount)
      [] OTHER -> Zeros(Len(rands))

(***************************************************************************)
(* Conversion of samples to signed PCM integers: the two SaveToWav and the *)
(* encoding loop of Player.PlayWaveform.  Bit depth 32 needs the value     *)
(* 2^31, which TLC's integers do not hold: the inputs stop at 24 bits.     *)
(***************************************************************************)
ErrEmptyWaveform == "cannot save empty waveform: no samples provided"
ErrBitDepth(bitDepth) == "bitdepth should be 8, 16, 24, or 32, not " \o ToString(bitDepth)
ErrChannels == "channels should be greater than 0"
ErrNotMultiple == "number of samples is not a multiple of channels"
ErrUnsupportedBitDepth(bitDepth) == "unsupported bit depth: " \o ToString(bitDepth)
ErrNotInitialized == "SDL2 Audio needs to be initialized first"

Encoded(data) == [err |-> NoErr, data |-> data]
NotEncoded(msg) == [err |-> msg, data |-> <<>>]

RMin(a, b) == IF RLt(b, a) THEN b ELSE a
RMax(a, b) == IF RGt(b, a) THEN b ELSE a

\* math.Round: to the nearest integer, halves away from zero.
RRound(a) ==
    IF a[1] >= 0 THEN (2 * a[1] + a[2]) \div (2 * a[2])
    ELSE -((2 * (-a[1]) + a[2]) \div (2 * a[2]))

\* maxIntValue := float64(int(1)<<(bitDepth-1)) - 1
MaxIntValue(bitDepth) == 2 ^ (bitDepth - 1) - 1

\* One iteration of the conversion loop of SaveToWav.
ScaleSample(sample, bitDepth) ==
    LET maxIntValue == RInt(MaxIntValue(bitDepth))
        minIntValue == RSub(RNeg(maxIntValue), One)
        scaled == RMul(Clamp(sample), maxIntValue)
    IN  RRound(RMax(RMin(scaled, maxIntValue), minIntValue))

SaveToWav(samples, bitDepth, channels) ==
    IF Len(samples) = 0 THEN NotEncoded(ErrEmptyWaveform)
    ELSE IF bitDepth \notin {8, 16, 24, 32} THEN NotEncoded(ErrBitDepth(bitDepth))
    ELSE IF channels <= 0 THEN NotEncoded(ErrChannels)
    ELSE IF Len(samples) % channels # 0 THEN NotEncoded(ErrNotMultiple)
    ELSE Encoded([i \in 1..Len(samples) |-> ScaleSample(samples[i], bitDepth)])

\* The older SaveToWav: mono, 16 or 24 bits, truncation after the clamp.
SaveToWavV1(samples, bitDepth) ==
    IF Len(samples) = 0 THEN NotEncoded(ErrEmptyWaveform)
    ELSE IF bitDepth = 16
         THEN Encoded([i \in 1..Len(samples) |->
                  RTrunc(RMax(RMin(RMul(samples[i], RInt(32767)), RInt(32767)), RInt(-32768)))])
    ELSE IF bitDepth = 24
         THEN Encoded([i \in 1..Len(samples) |->
                  RTrunc(RMax(RMin(RMul(samples[i], RInt(2 ^ 23)), RInt(8388607)), RInt(-8388608)))])
    ELSE NotEncoded(ErrUnsupportedBitDepth(bitDepth))

\* The two's complement value of the low bits of v.
Wrap(v, bits) == ((v + 2 ^ (bits - 1)) % (2 ^ bits)) - 2 ^ (bits - 1)

Saturate(v, bits) ==
    IF v > 2 ^ (bits - 1) - 1 THEN 2 ^ (bits - 1) - 1
    ELSE IF v < -(2 ^ (bits - 1)) THEN -(2 ^ (bits - 1))
    ELSE v

\* int8(x) and int16(x) of a float64: the truncated value when the type holds
\* it; otherwise the result depends on the implementation, which keeps the low
\* bits of a wider conversion or saturates.
ToInt(x, bits, platform) ==
    IF platform = "saturating" THEN Saturate(RTrunc(x), bits) ELSE Wrap(RTrunc(x), bits)

\* One iteration of the encoding loops of PlayWaveform.  At 24 bits the three
\* low bytes of int32(sample * 8388607) are written.
EncodeSample(sample, bitDepth, platform) ==
    CASE bitDepth = 8 -> ToInt(RMul(sample, RInt(127)), 8, platform)
      [] bitDepth = 16 -> ToInt(RMul(sample, RInt(32767)), 16, platform)
      [] bitDepth = 24 -> Wrap(RTrunc(RMul(sample, RInt(8388607))), 24)

\* Player.PlayWaveform on a device that opens with the desired format: the
\* data it queues.
PlayWaveform(initialized, samples, bitDepth, platform) ==
    IF ~initialized THEN NotEncoded(ErrNotInitialized)
    ELSE IF bitDepth \notin {8, 16, 24, 32} THEN NotEncoded(ErrUnsupportedBitDepth(bitDepth))
    ELSE Encoded([i \in 1..Len(samples) |-> EncodeSample(samples[i], bitDepth, platform)])

(***************************************************************************)
(* Fades, padding and the one-pole low-pass filter, as functions of the    *)
(* sample values.                                                          *)
(***************************************************************************)
\* LinearFade and QuadraticFade.
Curve(curve, t) == IF curve = "QuadraticFade" THEN RMul(t, t) ELSE t

\* fadeSamples := int(fadeDuration * float64(sampleRate)), capped at len(samples).
FadeSamples(n, fadeDuration, sampleRate) ==
    LET f == RTrunc(RMul(fadeDuration, RInt(sampleRate)))
    IN  IF f > n THEN n ELSE f

\* A fade-in whose ramp starts one step late: (i+1)/fadeSamples.
ApplyFadeInFromFirstStep(samples, fadeDuration, sampleRate, curve) ==
    LET fadeSamples == FadeSamples(Len(samples), fadeDuration, sampleRate)
    IN  [k \in 1..Len(samples) |->
            IF k - 1 < fadeSamples
            THEN RMul(samples[k], Curve(curve, R(k, fadeSamples)))
            ELSE samples[k]]

ApplyFadeIn(samples, fadeDuration, sampleRate, curve) ==
    LET fadeSamples == FadeSamples(Len(samples), fadeDuration, sampleRate)
    IN  [k \in 1..Len(samples) |->
            IF k - 1 < fadeSamples
            THEN RMul(samples[k], Curve(curve, R(k - 1, fadeSamples)))
            ELSE samples[k]]

ApplyFadeOut(samples, fadeDuration, sampleRate, curve) ==
    LET totalSamples == Len(samples)
        fadeSamples == FadeSamples(totalSamples, fadeDuration, sampleRate)
    IN  [k \in 1..totalSamples |->
            LET i == (k - 1) - (totalSamples - fadeSamples)
            IN  IF i >= 0 /\ i < fadeSamples
                THEN RMul(samples[k], Curve(curve, RSub(One, R(i, fadeSamples))))
                ELSE samples[k]]

\* audioeffects.FadeIn: the same linear ramp, written into a fresh buffer.
FadeIn(samples, duration, sampleRate) ==
    LET fadeSamples == FadeSamples(Len(samples), duration, sampleRate)
    IN  [k \in 1..Len(samples) |->
            IF k - 1 < fadeSamples
            THEN RDiv(RMul(samples[k], RInt(k - 1)), RInt(fadeSamples))
            ELSE samples[k]]

\* A padding that puts the zeros in front of the samples.
PadToRightAligned(wave, n) ==
    [k \in 1..n |-> IF k > n - Len(wave) THEN wave[k - (n - Len(wave))] ELSE Zero]

\* copy(make([]float64, n), wave)
PadTo(wave, n) == [k \in 1..n |-> IF k <= Len(wave) THEN wave[k] ELSE Zero]

PadSamples(wave1, wave2) ==
    IF Len(wave1) = Len(wave2) THEN <<wave1, wave2>>
    ELSE IF Len(wave1) < Len(wave2) THEN <<PadTo(wave1, Len(wave2)), wave2>>
    ELSE <<wave1, PadTo(wave2, Len(wave1))>>

\* alpha = dt/(rc+dt) involves pi; the model is given alpha itself.
RECURSIVE LowPassLoop(_, _, _, _, _)
LowPassLoop(samples, alpha, i, prev, filtered) ==
    IF i > Len(samples) THEN filtered
    ELSE LET y == RAdd(RMul(alpha, samples[i]), RMul(RSub(One, alpha), prev))
         IN  LowPassLoop(samples, alpha, i + 1, y, [filtered EXCEPT ![i] = y])

LowPassFilter(samples, alpha) ==
    IF Len(samples) = 0 THEN samples
    ELSE LowPassLoop(samples, alpha, 2, samples[1],
                     [Zeros(Len(samples)) EXCEPT ![1] = samples[1]])

(***************************************************************************)
(* Filters with internal state.  left is the filter state an earlier call  *)
(* ended with: the code keeps it in locals (or in a Biquad made by the     *)
(* call), so a call never reads it.  The coefficients come from math.Sin   *)
(* and math.Cos of the parameters; the model is given the coefficients.    *)
(***************************************************************************)
NoFilterState == [x1 |-> Zero, x2 |-> Zero, y1 |-> Zero, y2 |-> Zero]

\* A filter that goes on from the state the call before it left.
BiquadResume(left) == left

\* x1, x2, y1, y2 := 0.0, 0.0, 0.0, 0.0
BiquadStart(left) == NoFilterState

\* y := a0*sample + a1*x1 + a2*x2 - b1*y1 - b2*y2, and the shift of the state.
RECURSIVE BiquadLoop(_, _, _, _, _)
BiquadLoop(samples, c, i, s, filtered) ==
    IF i > Len(samples) THEN [buf |-> filtered, left |-> s]
    ELSE LET y == RSub(RSub(RAdd(RAdd(RMul(c.a0, samples[i]), RMul(c.a1, s.x1)),
                                 RMul(c.a2, s.x2)),
                            RMul(c.b1, s.y1)),
                       RMul(c.b2, s.y2))
         IN  BiquadLoop(samples, c, i + 1,
                        [x1 |-> samples[i], x2 |-> s.x1, y1 |-> y, y2 |-> s.y1],
                        [filtered EXCEPT ![i] = y])

BiquadFilter(samples, c, left) ==
    BiquadLoop(samples, c, 1, BiquadStart(left), Zeros(Len(samples)))

\* One filter call after a call that left the state left.  The one-pole
\* low-pass has no state besides prev, which it takes from its input.
RunFilter(filter, samples, param, left) ==
    IF filter = "BiquadFilter" THEN BiquadFilter(samples, param, left)
    ELSE [buf |-> LowPassFilter(samples, param), left |-> left]

(***************************************************************************)
(* Slices and their backing arrays.  heap[a] is the content of backing     *)
(* array a; a slice value is the address of its array (every slice here    *)
(* spans its whole array).  A call on the heap returns the heap it leaves  *)
(* and the slices it hands back, in order.                                 *)
(***************************************************************************)
OnHeap(h, out) == [heap |-> h, out |-> out]

\* The function allocates its result: make, then fill.
Fresh(h, values) == OnHeap(Append(h, values), <<Len(h) + 1>>)

\* The function works in the caller's array and returns the same slice.
InPlace(h, x, values) == OnHeap([h EXCEPT ![x] = values], <<x>>)

ApplyFadeInOnHeap(h, x, fadeDuration, sampleRate, curve) ==
    InPlace(h, x, ApplyFadeIn(h[x], fadeDuration, sampleRate, curve))

ApplyFadeOutOnHeap(h, x, fadeDuration, sampleRate, curve) ==
    InPlace(h, x, ApplyFadeOut(h[x], fadeDuration, sampleRate, curve))

FadeInOnHeap(h, x, duration, sampleRate) ==
    Fresh(h, FadeIn(h[x], duration, sampleRate))

LimiterOnHeap(h, x) == Fresh(h, Limiter(h[x]))

DriveOnHeap(h, x, gain) == Fresh(h, Drive(h[x], gain))

NormalizeSamplesOnHeap(h, x, targetPeak) ==
    IF NormalizeReturnsInput(h[x], targetPeak) THEN OnHeap(h, <<x>>)
    ELSE Fresh(h, NormalizeSamples(h[x], targetPeak))

LowPassFilterOnHeap(h, x, alpha) ==
    IF Len(h[x]) = 0 THEN OnHeap(Append(h, <<>>), <<x>>)
    ELSE Fresh(h, LowPassFilter(h[x], alpha))

PadSamplesOnHeap(h, x1, x2) ==
    IF Len(h[x1]) = Len(h[x2]) THEN OnHeap(h, <<x1, x2>>)
    ELSE IF Len(h[x1]) < Len(h[x2])
         THEN OnHeap(Append(h, PadSamples(h[x1], h[x2])[1]), <<Len(h) + 1, x2>>)
    ELSE OnHeap(Append(h, PadSamples(h[x1], h[x2])[2]), <<x1, Len(h) + 1>>)

\* CopySettings: newCfg := *cfg copies every field, slice headers included;
\* OscillatorLevels is then replaced by append([]float64(nil), ...).
CopySettings(h, cfg) ==
    [heap |-> Append(h, h[cfg.OscillatorLevels]),
     cfg |-> [cfg EXCEPT !.OscillatorLevels = Len(h) + 1]]

(***************************************************************************)
(* ADSR envelopes.  A level is returned with the phase (the branch or the  *)
(* state) that produced it.                                                *)
(***************************************************************************)
Level(level, phase) == [level |-> level, phase |-> phase]

\* The if-chain of synth.ApplyEnvelope for the sample at time t.
EnvelopeLevel(t, attack, decay, sustain, release, totalDuration) ==
    IF RLt(t, attack) THEN Level(RDiv(t, attack), "attack")
    ELSE IF RLt(t, RAdd(attack, decay))
    THEN Level(RSub(One, RMul(RDiv(RSub(t, attack), decay), RSub(One, sustain))), "decay")
    ELSE IF RLt(t, RSub(totalDuration, release)) THEN Level(sustain, "sustain")
    ELSE IF RLt(t, totalDuration)
    THEN Level(RMul(sustain, RSub(One, RDiv(RSub(t, RSub(totalDuration, release)), release))),
               "release")
    ELSE Level(Zero, "end")

\* synth.ApplyEnvelope: totalDuration is the buffer's own duration.
ApplyEnvelope(samples, attack, decay, sustain, release, sampleRate) ==
    LET totalDuration == RDiv(RInt(Len(samples)), RInt(sampleRate))
        env == [k \in 1..Len(samples) |->
                   EnvelopeLevel(RDiv(RInt(k - 1), RInt(sampleRate)), attack, decay,
                                 sustain, release, totalDuration)]
    IN  Ok([k \in 1..Len(samples) |-> RMul(samples[k], env[k].level)])
            @@ [phases |-> [k \in 1..Len(samples) |-> env[k].phase]]

\* (*Settings).ApplyEnvelopeAtTime: the same chain on the settings' fields.
ApplyEnvelopeAtTime(cfg, t) ==
    IF RLt(t, cfg.Attack) THEN Level(RDiv(t, cfg.Attack), "attack")
    ELSE IF RLt(t, RAdd(cfg.Attack, cfg.Decay))
    THEN Level(RSub(One, RMul(RDiv(RSub(t, cfg.Attack), cfg.Decay), RSub(One, cfg.Sustain))),
               "decay")
    ELSE IF RLt(t, RSub(cfg.Duration, cfg.Release)) THEN Level(cfg.Sustain, "sustain")
    ELSE IF RLt(t, cfg.Duration)
    THEN Level(RMul(cfg.Sustain,
                    RSub(One, RDiv(RSub(t, RSub(cfg.Duration, cfg.Release)), cfg.Release))),
               "release")
    ELSE Level(Zero, "end")

\* audioeffects.EnvelopeAtTime: the chain again, after a guard for t < 0.
EnvelopeAtTime(t, attack, decay, sustainLevel, release, duration) ==
    IF RLt(t, Zero) THEN Level(Zero, "before")
    ELSE IF RLt(t, attack) THEN Level(RDiv(t, attack), "attack")
    ELSE IF RLt(t, RAdd(attack, decay))
    THEN Level(RSub(One, RMul(RDiv(RSub(t, attack), decay), RSub(One, sustainLevel))), "decay")
    ELSE IF RLt(t, RSub(duration, release)) THEN Level(sustainLevel, "sustain")
    ELSE IF RLt(t, duration)
    THEN Level(RMul(sustainLevel, RSub(One, RDiv(RSub(t, RSub(duration, release)), release))),
               "release")
    ELSE Level(Zero, "end")

\* audioeffects.Envelope: the sample counts of the four phases.
EnvelopeCounts(n, attack, decay, release, sampleRate) ==
    LET attackSamples == RTrunc(RMul(attack, RInt(sampleRate)))
        decaySamples == RTrunc(RMul(decay, RInt(sampleRate)))
        releaseSamples == RTrunc(RMul(release, RInt(sampleRate)))
        sustainSamples == n - attackSamples - decaySamples - releaseSamples
        rest == n - attackSamples - decaySamples
    IN  [attackSamples |-> attackSamples,
         decaySamples |-> decaySamples,
         sustainSamples |-> IF sustainSamples < 0 THEN 0 ELSE sustainSamples,
         releaseSamples |-> IF sustainSamples < 0
                            THEN (IF rest < 0 THEN 0 ELSE rest)
                            ELSE releaseSamples]

\* audioeffects.Envelope: one pass of the switch on state, for index i (from 0).
EnvelopeStep(c, sustainLevel, i, state) ==
    CASE state = "attack" ->
           IF c.attackSamples > 0 /\ i < c.attackSamples
           THEN [level |-> RDiv(RInt(i), RInt(c.attackSamples)), state |-> "attack"]
           ELSE [level |-> One, state |-> "decay"]
      [] state = "decay" ->
           IF c.decaySamples > 0 /\ i < c.attackSamples + c.decaySamples
           THEN [level |-> RSub(One, RDiv(RMul(RSub(One, sustainLevel),
                                               RInt(i - c.attackSamples)),
                                          RInt(c.decaySamples))),
                 state |-> "decay"]
           ELSE [level |-> sustainLevel, state |-> "sustain"]
      [] state = "sustain" ->
           [level |-> sustainLevel,
            state |-> IF i >= c.attackSamples + c.decaySamples + c.sustainSamples
                      THEN "release" ELSE "sustain"]
      [] OTHER ->
           LET start == c.attackSamples + c.decaySamples + c.sustainSamples
           IN  IF c.releaseSamples > 0 /\ i < start + c.releaseSamples
               THEN [level |-> RMul(sustainLevel,
                                    RSub(One, RDiv(RInt(i - start), RInt(c.releaseSamples)))),
                     state |-> "release"]
               ELSE [level |-> Zero, state |-> "release"]

RECURSIVE EnvelopeLoop(_, _, _, _, _, _)
EnvelopeLoop(samples, c, sustainLevel, i, state, out) ==
    IF i >= Len(samples) THEN out
    ELSE LET s == EnvelopeStep(c, sustainLevel, i, state)
         IN  EnvelopeLoop(samples, c, sustainLevel, i + 1, s.state,
                 [buf |-> Append(out.buf, RMul(samples[i + 1], s.level)),
                  phases |-> Append(out.phases, state)])

Envelope(samples, attack, decay, sustainLevel, release, sampleRate) ==
    LET c == EnvelopeCounts(Len(samples), attack, decay, release, sampleRate)
        out == EnvelopeLoop(samples, c, sustainLevel, 0, "attack",
                            [buf |-> <<>>, phases |-> <<>>])
    IN  Ok(out.buf) @@ [phases |-> out.phases]

(***************************************************************************)
(* audioeffects.PitchShift and audioeffects.PitchModulation.               *)
(***************************************************************************)
\* math.Pow(2, semitones/12), for a shift by whole octaves.
OctaveRate(semitones) ==
    LET k == semitones \div 12
    IN  IF k >= 0 THEN RInt(2 ^ k) ELSE R(1, 2 ^ (-k))

PitchShift(samples, semitones) ==
    LET rate == OctaveRate(semitones)
        newLength == RTrunc(RDiv(RInt(Len(samples)), rate))
    IN  [k \in 1..newLength |->
            LET srcIndex == RMul(RInt(k - 1), rate)
                lower == RTrunc(srcIndex)
                upper == IF lower + 1 >= Len(samples) THEN Len(samples) - 1 ELSE lower + 1
                frac == RSub(srcIndex, RInt(lower))
            IN  RAdd(RMul(samples[lower + 1], RSub(One, frac)),
                     RMul(samples[upper + 1], frac))]

\* int(math.Abs(math.Sin(2*math.Pi*lfoPhase)) * float64(maxDelay)) for a phase
\* that is a multiple of a quarter turn: the sine is 1 or -1 at the odd
\* quarters and (up to 2e-16) 0 at the even ones.
LfoDelay(lfoPhase, maxDelay) ==
    IF lfoPhase \in {R(1, 4), R(3, 4)} THEN maxDelay ELSE 0

\* The loop over the samples; i and bufferIndex count from 0.
RECURSIVE PitchModulationLoop(_, _, _, _, _, _, _, _)
PitchModulationLoop(samples, lfoIncrement, maxDelay, i, lfoPhase, bufferIndex, buffer, modulated) ==
    IF i >= Len(samples) THEN Ok(modulated)
    ELSE IF Len(buffer) = 0 THEN Panics(PanicDivZero)
    ELSE LET currentDelay == LfoDelay(lfoPhase, maxDelay)
             readIndex == (bufferIndex - currentDelay + Len(buffer)) % Len(buffer)
             phase == RAdd(lfoPhase, lfoIncrement)
         IN  PitchModulationLoop(samples, lfoIncrement, maxDelay, i + 1,
                 IF RLt(phase, One) THEN phase ELSE RSub(phase, One),
                 (bufferIndex + 1) % Len(buffer),
                 [buffer EXCEPT ![bufferIndex + 1] = samples[i + 1]],
                 [modulated EXCEPT ![i + 1] = buffer[readIndex + 1]])

PitchModulation(samples, modFreq, modDepth, sampleRate) ==
    LET lfoIncrement == RDiv(modFreq, RInt(sampleRate))
        maxDelay == RTrunc(RMul(modDepth, RInt(sampleRate)))
    IN  IF maxDelay < 0 THEN Panics(PanicMakeLen)
        ELSE PitchModulationLoop(samples, lfoIncrement, maxDelay, 0, Zero, 0,
                                 Zeros(maxDelay * 2), Zeros(Len(samples)))

(***************************************************************************)
(* StereoDelay: one circular delay buffer per channel.  A delay of no      *)
(* samples is raised to 1; the loop runs over the left channel and indexes *)
(* the right channel with the same i.                                      *)
(***************************************************************************)
\* delaySamples := int(delayTime * float64(sampleRate)); if <= 0 then 1
DelaySamples(delayTime, sampleRate) ==
    LET n == RTrunc(RMul(delayTime, RInt(sampleRate)))
    IN  IF n <= 0 THEN 1 ELSE n

StereoResult(r, delayedRight) == r @@ [right |-> delayedRight]

\* The loop over the left channel; i and the buffer indices count from 0.
RECURSIVE StereoDelayLoop(_, _, _, _, _, _)
StereoDelayLoop(left, right, feedback, mix, i, s) ==
    IF i >= Len(left) THEN StereoResult(Ok(s.delayedLeft), s.delayedRight)
    ELSE IF i >= Len(right) THEN StereoResult(Panics(PanicIndex), <<>>)
    ELSE LET delayedSampleLeft == s.bufferLeft[s.bufferIndexLeft + 1]
             delayedSampleRight == s.bufferRight[s.bufferIndexRight + 1]
         IN  StereoDelayLoop(left, right, feedback, mix, i + 1,
                 [delayedLeft |-> [s.delayedLeft EXCEPT ![i + 1] =
                      RAdd(RMul(left[i + 1], RSub(One, mix)), RMul(delayedSampleLeft, mix))],
                  bufferLeft |-> [s.bufferLeft EXCEPT ![s.bufferIndexLeft + 1] =
                      RAdd(left[i + 1], RMul(delayedSampleLeft, feedback))],
                  bufferIndexLeft |-> (s.bufferIndexLeft + 1) % Len(s.bufferLeft),
                  delayedRight |-> [s.delayedRight EXCEPT ![i + 1] =
                      RAdd(RMul(right[i + 1], RSub(One, mix)), RMul(delayedSampleRight, mix))],
                  bufferRight |-> [s.bufferRight EXCEPT ![s.bufferIndexRight + 1] =
                      RAdd(right[i + 1], RMul(delayedSampleRight, feedback))],
                  bufferIndexRight |-> (s.bufferIndexRight + 1) % Len(s.bufferRight)])

StereoDelay(left, right, sampleRate, delayTimeLeft, delayTimeRight, feedback, mix) ==
    StereoDelayLoop(left, right, feedback, mix, 0,
        [delayedLeft |-> Zeros(Len(left)), delayedRight |-> Zeros(Len(right)),
         bufferLeft |-> Zeros(DelaySamples(delayTimeLeft, sampleRate)),
         bufferRight |-> Zeros(DelaySamples(delayTimeRight, sampleRate)),
         bufferIndexLeft |-> 0, bufferIndexRight |-> 0])

(***************************************************************************)
(* Arguments the callers of the mixing functions draw from.                *)
(***************************************************************************)
MixVals == {<<-2, 1>>, <<1, 2>>, <<2, 1>>}
WeightVals == {<<-1, 1>>, <<2, 1>>}

SeqsUpTo(S, n) == UNION {[1..k -> S] : k \in 0..n}
MixBufs == SeqsUpTo(MixVals, MaxLen)
MixLists == SeqsUpTo(MixBufs, MaxBufs)
WeightLists == SeqsUpTo(WeightVals, MaxBufs)

NoHeap == <<>>
NoGhost == [kind |-> "none"]

Init ==
    /\ pc = "idle"
    /\ op = "none"
    /\ args = [kind |-> "none"]
    /\ ret = [kind |-> "none"]
    /\ heap = NoHeap
    /\ ghost = NoGhost

Returns(name, a, r) ==
    /\ pc' = "done"
    /\ op' = name
    /\ args' = a
    /\ ret' = r
    /\ UNCHANGED <<heap, ghost>>

CallLinearSummation ==
    /\ pc = "idle"
    /\ \E samples \in MixLists :
        Returns("LinearSummation", [samples |-> samples], LinearSummation(samples))

CallWeightedSummation ==
    /\ pc = "idle"
    /\ \E weights \in WeightLists, samples \in MixLists :
        Returns("WeightedSummation", [weights |-> weights, samples |-> samples],
                WeightedSummation(weights, samples))

CallRMSMixing ==
    /\ pc = "idle"
    /\ \E samples \in MixLists :
        Returns("RMSMixing", [samples |-> samples], RMSMixing(samples))

SampleVals == {<<-2, 1>>, <<-1, 2>>, <<0, 1>>, <<1, 2>>, <<1, 1>>, <<2, 1>>}
GainVals == {<<-1, 1>>, <<0, 1>>, <<1, 2>>, <<1, 1>>, <<3, 1>>}
SampleBufs == SeqsUpTo(SampleVals, MaxLen)

CallDrive ==
    /\ pc = "idle"
    /\ \E samples \in SampleBufs, gain \in GainVals :
        Returns("Drive", [samples |-> samples, gain |-> gain], Ok(Drive(samples, gain)))

\* One sample in, one sample out: both are kept as one-element buffers.
CallApplyDrive ==
    /\ pc = "idle"
    /\ \E sample \in SampleVals, drive \in GainVals :
        Returns("ApplyDrive", [samples |-> <<sample>>, gain |-> drive],
                Ok(<<ApplyDrive(sample, drive)>>))

CallLimiter ==
    /\ pc = "idle"
    /\ \E samples \in SampleBufs :
        Returns("Limiter", [samples |-> samples], Ok(Limiter(samples)))

\* Samples for normalisation: SampleVals and two values whose reciprocal is
\* not a float of few bits.
NormalizeVals == SampleVals \cup {<<25, 32>>, <<13, 16>>}
NormalizeBufs == SeqsUpTo(NormalizeVals, MaxLen)

CallNormalizeSamples ==
    /\ pc = "idle"
    /\ \E samples \in NormalizeBufs, targetPeak \in GainVals :
        Returns("NormalizeSamples", [samples |-> samples, targetPeak |-> targetPeak],
                Ok(NormalizeSamples(samples, targetPeak)))

CallAudioeffectsNormalizeSamples ==
    /\ pc = "idle"
    /\ \E samples \in NormalizeBufs, targetPeak \in GainVals :
        Returns("audioeffects.NormalizeSamples",
                [samples |-> samples, targetPeak |-> targetPeak],
                Ok(AudioeffectsNormalizeSamples(samples, targetPeak)))

CoeffVals == {<<1, 2>>, <<9, 10>>}

CallSidechainCompressor ==
    /\ pc = "idle"
    /\ \E target \in MixBufs, trigger \in MixBufs, attackCoeff \in CoeffVals :
        Returns("SidechainCompressor", [target |-> target, trigger |-> trigger],
                SidechainCompressor(target, trigger, R(1, 2), RInt(2),
                                    attackCoeff, R(1, 2)))

DelayVals == {1, 2}
ReverbVals == {<<1, 1>>}

\* Delay lists of the accepted counts, a delay of 0 samples among them.
CombDelayLists == [1..4 -> {0, 2}]
AllPassDelayLists == [1..2 -> {0, 1}]

CallSchroederReverb ==
    /\ pc = "idle"
    /\ \E samples \in SeqsUpTo(ReverbVals, MaxLen),
          combDelays \in SeqsUpTo(DelayVals, MaxCombs) \cup CombDelayLists,
          allPassDelays \in SeqsUpTo(DelayVals, MaxAllPass) \cup AllPassDelayLists :
        Returns("SchroederReverb",
                [samples |-> samples, combDelays |-> combDelays,
                 allPassDelays |-> allPassDelays],
                SchroederReverb(samples, R(1, 2), combDelays, allPassDelays))

DurationArgs == {<<-1, 1>>, <<0, 1>>, <<1, 2>>, <<1, 1>>}
BitDepthArgs == {0, 16}

CallNewSettings ==
    /\ pc = "idle"
    /\ \E duration \in DurationArgs, sampleRate \in -1..MaxRate,
          bitDepth \in BitDepthArgs, channels \in -1..MaxChannels :
        Returns("NewSettings",
                [duration |-> duration, sampleRate |-> sampleRate,
                 bitDepth |-> bitDepth, channels |-> channels],
                NewSettings(RInt(55), RInt(30), duration, sampleRate, bitDepth, channels))

CallNew808Kick ==
    /\ pc = "idle"
    /\ \E duration \in DurationArgs, sampleRate \in -1..MaxRate,
          bitDepth \in BitDepthArgs, channels \in -1..MaxChannels :
        Returns("New808Kick",
                [duration |-> duration, sampleRate |-> sampleRate,
                 bitDepth |-> bitDepth, channels |-> channels],
                New808Kick(duration, sampleRate, bitDepth, channels))

\* NewSnareSettings takes no duration: the snare's is fixed at half a second.
CallNewSnareSettings ==
    /\ pc = "idle"
    /\ \E sampleRate \in -1..MaxRate, bitDepth \in BitDepthArgs,
          channels \in -1..MaxChannels :
        Returns("NewSnareSettings",
                [duration |-> R(1, 2), sampleRate |-> sampleRate,
                 bitDepth |-> bitDepth, channels |-> channels],
                NewSnareSettings(sampleRate, bitDepth, channels))

DurationVals == {<<1, 2>>, <<1, 1>>, <<2, 1>>}
VoiceSettings ==
    [SampleRate : 1..MaxRate, Duration : DurationVals, WaveformType : 0..MaxWaveform]

CallGenerateKick ==
    /\ pc = "idle"
    /\ \E cfg \in VoiceSettings :
        Returns("GenerateKick", [cfg |-> cfg], GenerateKick(cfg))

CallGenerateKickV1 ==
    /\ pc = "idle"
    /\ \E cfg \in VoiceSettings :
        Returns("GenerateKickV1", [cfg |-> cfg], GenerateKickV1(cfg))

CallGenerateSnare ==
    /\ pc = "idle"
    /\ \E cfg \in VoiceSettings :
        Returns("GenerateSnare", [cfg |-> cfg], GenerateSnare(cfg))

CallGenerateTom ==
    /\ pc = "idle"
    /\ \E cfg \in VoiceSettings :
        Returns("GenerateTom", [cfg |-> cfg], GenerateTom(cfg))

CallGenerateXylophone ==
    /\ pc = "idle"
    /\ \E cfg \in VoiceSettings :
        Returns("GenerateXylophone", [cfg |-> cfg], GenerateXylophone(cfg))

(***************************************************************************)
(* Aliasing scenarios: a caller holds slices, calls a function on them,    *)
(* and may afterwards write one element through a slice it holds.          *)
(***************************************************************************)
HeapVals == {<<1, 2>>, <<1, 1>>}
HeapBufs == SeqsUpTo(HeapVals, MaxLen)
WriteVal == <<7, 10>>
FadeDurations == {<<0, 1>>, <<1, 2>>, <<1, 1>>, <<3, 1>>}
Curves == {"LinearFade", "QuadraticFade"}
AlphaVals == {<<1, 2>>}

\* A transform of slice 1 returned r: remember the input as it was.
Transformed(name, a, h, r) ==
    /\ pc' = "done"
    /\ op' = name
    /\ args' = a
    /\ ret' = [out |-> r.out]
    /\ heap' = r.heap
    /\ ghost' = [kind |-> "transform",
                 before |-> [k \in 1..Len(a.in) |-> h[a.in[k]]],
                 after |-> [k \in 1..Len(r.out) |-> r.heap[r.out[k]]],
                 writable |-> {<<"out", r.out[k]>> : k \in 1..Len(r.out)},
                 writer |-> "none"]

HeapApplyFadeIn ==
    /\ pc = "idle"
    /\ \E x \in HeapBufs, d \in FadeDurations, sr \in 1..MaxRate, c \in Curves :
        Transformed("ApplyFadeIn",
                    [in |-> <<1>>, fadeDuration |-> d, sampleRate |-> sr, curve |-> c],
                    <<x>>, ApplyFadeInOnHeap(<<x>>, 1, d, sr, c))

HeapApplyFadeOut ==
    /\ pc = "idle"
    /\ \E x \in HeapBufs, d \in FadeDurations, sr \in 1..MaxRate, c \in Curves :
        Transformed("ApplyFadeOut",
                    [in |-> <<1>>, fadeDuration |-> d, sampleRate |-> sr, curve |-> c],
                    <<x>>, ApplyFadeOutOnHeap(<<x>>, 1, d, sr, c))

HeapFadeIn ==
    /\ pc = "idle"
    /\ \E x \in HeapBufs, d \in FadeDurations, sr \in 1..MaxRate :
        Transformed("audioeffects.FadeIn",
                    [in |-> <<1>>, fadeDuration |-> d, sampleRate |-> sr,
                     curve |-> "LinearFade"],
                    <<x>>, FadeInOnHeap(<<x>>, 1, d, sr))

HeapLimiter ==
    /\ pc = "idle"
    /\ \E x \in SampleBufs :
        Transformed("Limiter", [in |-> <<1>>], <<x>>, LimiterOnHeap(<<x>>, 1))

HeapDrive ==
    /\ pc = "idle"
    /\ \E x \in HeapBufs, gain \in GainVals :
        Transformed("Drive", [in |-> <<1>>, gain |-> gain], <<x>>,
                    DriveOnHeap(<<x>>, 1, gain))

HeapNormalizeSamples ==
    /\ pc = "idle"
    /\ \E x \in SeqsUpTo({Zero, R(1, 2)}, MaxLen), targetPeak \in {One} :
        Transformed("NormalizeSamples", [in |-> <<1>>, targetPeak |-> targetPeak],
                    <<x>>, NormalizeSamplesOnHeap(<<x>>, 1, targetPeak))

HeapLowPassFilter ==
    /\ pc = "idle"
    /\ \E x \in HeapBufs, alpha \in AlphaVals :
        Transformed("LowPassFilter", [in |-> <<1>>, alpha |-> alpha], <<x>>,
                    LowPassFilterOnHeap(<<x>>, 1, alpha))

HeapPadSamples ==
    /\ pc = "idle"
    /\ \E x1 \in HeapBufs, x2 \in HeapBufs :
        Transformed("PadSamples", [in |-> <<1, 2>>], <<x1, x2>>,
                    PadSamplesOnHeap(<<x1, x2>>, 1, 2))

SliceFields == {"OscillatorLevels", "FilterBands"}

HeapCopySettings ==
    /\ pc = "idle"
    /\ \E levels \in HeapBufs, bands \in HeapBufs :
        LET h == <<levels, bands>>
            cfg == [OscillatorLevels |-> 1, FilterBands |-> 2]
            r == CopySettings(h, cfg)
        IN  /\ pc' = "done"
            /\ op' = "CopySettings"
            /\ args' = [cfg |-> cfg]
            /\ ret' = [cfg |-> r.cfg]
            /\ heap' = r.heap
            /\ ghost' = [kind |-> "copy",
                         before |-> [f \in SliceFields |-> h[cfg[f]]],
                         after |-> [f \in SliceFields |-> r.heap[r.cfg[f]]],
                         writable |-> {<<"s", cfg[f]>> : f \in SliceFields}
                                      \cup {<<"c", r.cfg[f]>> : f \in SliceFields},
                         writer |-> "none"]

\* The caller assigns one element through one of the slices it holds.
CallerWrite ==
    /\ pc = "done"
    /\ ghost.kind \in {"transform", "copy"}
    /\ \E w \in ghost.writable :
        \E i \in 1..Len(heap[w[2]]) :
            /\ heap' = [heap EXCEPT ![w[2]][i] = WriteVal]
            /\ ghost' = [ghost EXCEPT !.writer = w[1]]
    /\ pc' = "written"
    /\ UNCHANGED <<op, args, ret>>

(***************************************************************************)
(* Calls of the envelope, pitch, filter and fade transforms, by value.     *)
(***************************************************************************)
MaxEnvLen == 4
MaxFadeLen == 4

EnvSampleVals == {<<1, 1>>, <<-1, 2>>}
EnvTimes == {<<0, 1>>, <<1, 2>>, <<1, 1>>, <<2, 1>>}
SustainVals == {<<0, 1>>, <<1, 2>>, <<1, 1>>}
EnvRates == {1, 2}
EnvBufs == UNION {[1..n -> {v}] : n \in 0..MaxEnvLen, v \in EnvSampleVals}

\* The time of the sample at position k (index k - 1).
TimeOf(k, sampleRate) == RDiv(RInt(k - 1), RInt(sampleRate))

\* synth.ApplyEnvelope on a buffer, and ApplyEnvelopeAtTime at each sample's
\* time on settings whose Duration is the buffer's duration.
CallApplyEnvelope ==
    /\ pc = "idle"
    /\ \E samples \in EnvBufs, attack \in EnvTimes, decay \in EnvTimes,
          sustain \in SustainVals, release \in EnvTimes, sampleRate \in EnvRates :
        LET cfg == [Attack |-> attack, Decay |-> decay, Sustain |-> sustain,
                    Release |-> release,
                    Duration |-> RDiv(RInt(Len(samples)), RInt(sampleRate))]
        IN  Returns("ApplyEnvelope",
                    [samples |-> samples, attack |-> attack, decay |-> decay,
                     sustain |-> sustain, release |-> release, sampleRate |-> sampleRate],
                    ApplyEnvelope(samples, attack, decay, sustain, release, sampleRate)
                        @@ [points |-> [k \in 1..Len(samples) |->
                               ApplyEnvelopeAtTime(cfg, TimeOf(k, sampleRate)).level]])

\* audioeffects.Envelope on a buffer, and audioeffects.EnvelopeAtTime at each
\* sample's time with the buffer's duration.
CallEnvelope ==
    /\ pc = "idle"
    /\ \E samples \in EnvBufs, attack \in EnvTimes, decay \in EnvTimes,
          sustain \in SustainVals, release \in EnvTimes, sampleRate \in EnvRates :
        Returns("audioeffects.Envelope",
                [samples |-> samples, attack |-> attack, decay |-> decay,
                 sustain |-> sustain, release |-> release, sampleRate |-> sampleRate],
                Envelope(samples, attack, decay, sustain, release, sampleRate)
                    @@ [points |-> [k \in 1..Len(samples) |->
                           EnvelopeAtTime(TimeOf(k, sampleRate), attack, decay, sustain, release,
                                          RDiv(RInt(Len(samples)), RInt(sampleRate))).level]])

SemitoneVals == {-12, 0, 12}

CallPitchShift ==
    /\ pc = "idle"
    /\ \E samples \in SampleBufs, semitones \in SemitoneVals :
        Returns("PitchShift", [samples |-> samples, semitones |-> semitones],
                Ok(PitchShift(samples, semitones)))

ModFreqs == {<<0, 1>>, <<1, 1>>, <<2, 1>>}
ModDepths == {<<-1, 4>>, <<0, 1>>, <<1, 4>>, <<1, 2>>}
ModRates == {4}

CallPitchModulation ==
    /\ pc = "idle"
    /\ \E samples \in MixBufs, modFreq \in ModFreqs, modDepth \in ModDepths,
          sampleRate \in ModRates :
        Returns("PitchModulation",
                [samples |-> samples, modFreq |-> modFreq, modDepth |-> modDepth,
                 sampleRate |-> sampleRate],
                PitchModulation(samples, modFreq, modDepth, sampleRate))

CallLowPassFilter ==
    /\ pc = "idle"
    /\ \E samples \in SampleBufs, alpha \in AlphaVals :
        Returns("LowPassFilter", [samples |-> samples, alpha |-> alpha],
                Ok(LowPassFilter(samples, alpha)))

FadeBufs == SeqsUpTo(HeapVals, MaxFadeLen)

CallApplyFadeIn ==
    /\ pc = "idle"
    /\ \E samples \in FadeBufs, d \in FadeDurations, sr \in 1..MaxRate, c \in Curves :
        Returns("ApplyFadeIn",
                [samples |-> samples, fadeDuration |-> d, sampleRate |-> sr, curve |-> c],
                Ok(ApplyFadeIn(samples, d, sr, c)))

CallApplyFadeOut ==
    /\ pc = "idle"
    /\ \E samples \in FadeBufs, d \in FadeDurations, sr \in 1..MaxRate, c \in Curves :
        Returns("ApplyFadeOut",
                [samples |-> samples, fadeDuration |-> d, sampleRate |-> sr, curve |-> c],
                Ok(ApplyFadeOut(samples, d, sr, c)))

CallFadeIn ==
    /\ pc = "idle"
    /\ \E samples \in FadeBufs, d \in FadeDurations, sr \in 1..MaxRate :
        Returns("audioeffects.FadeIn",
                [samples |-> samples, fadeDuration |-> d, sampleRate |-> sr,
                 curve |-> "LinearFade"],
                Ok(FadeIn(samples, d, sr)))

\* Limiter applied to its own result.
CallLimiterTwice ==
    /\ pc = "idle"
    /\ \E samples \in SampleBufs :
        Returns("LimiterTwice", [samples |-> samples],
                Ok(Limiter(Limiter(samples))) @@ [once |-> Limiter(samples)])

SoundTypes == {"kick", "clap", "snare", "closed_hh", "open_hh", "rimshot", "tom", "percussion", "ride", "crash", "bass", "xylophone", "lead"}

\* cfg.Generate(t) for a known or an unknown name.  level stands for the
\* sample values the oscillators, the noise and the stages before the last one
\* left in the buffer (rand and math.Sin are not computed).
CallGenerate ==
    /\ pc = "idle"
    /\ \E cfg \in VoiceSettings, t \in SoundTypes \cup {"cowbell"}, level \in SampleVals :
        LET r == Generate(cfg, t)
        IN  Returns("Generate", [cfg |-> cfg, t |-> t, level |-> level],
                    r @@ [out |-> FinalStage(r.stages, [i \in 1..Len(r.buf) |-> level])])

MaxNoiseLen == 4
RandVals == {<<0, 1>>, <<1, 2>>, <<31, 32>>}
AmountVals == {<<-1, 2>>, <<0, 1>>, <<1, 2>>, <<1, 1>>, <<2, 1>>}

CallGenerateNoise ==
    /\ pc = "idle"
    /\ \E noiseType \in NoiseNone..NoiseBrown, rands \in SeqsUpTo(RandVals, MaxNoiseLen), amount \in AmountVals :
        Returns("GenerateNoise", [noiseType |-> noiseType, rands |-> rands, amount |-> amount],
                Ok(GenerateNoise(noiseType, rands, amount)))

PcmVals == SampleVals \cup {<<-1, 1>>, <<3, 2>>}
PcmBufs == SeqsUpTo(PcmVals, MaxLen)
PcmBitDepths == {8, 12, 16, 24}

CallSaveToWav ==
    /\ pc = "idle"
    /\ \E samples \in PcmBufs, bitDepth \in PcmBitDepths, channels \in 0..MaxChannels :
        Returns("SaveToWav", [samples |-> samples, bitDepth |-> bitDepth, channels |-> channels],
                SaveToWav(samples, bitDepth, channels))

CallSaveToWavV1 ==
    /\ pc = "idle"
    /\ \E samples \in PcmBufs, bitDepth \in PcmBitDepths :
        Returns("SaveToWavV1", [samples |-> samples, bitDepth |-> bitDepth],
                SaveToWavV1(samples, bitDepth))

CallPlayWaveform ==
    /\ pc = "idle"
    /\ \E initialized \in BOOLEAN, samples \in PcmBufs, bitDepth \in PcmBitDepths, platform \in {"truncating", "saturating"} :
        Returns("PlayWaveform",
                [initialized |-> initialized, samples |-> samples, bitDepth |-> bitDepth, platform |-> platform],
                PlayWaveform(initialized, samples, bitDepth, platform))

MaxFilterLen == 2
MaxFilterCalls == 3
FilterBufs == SeqsUpTo({Zero, One}, MaxFilterLen)
BiquadCoeffs == {[a0 |-> R(1, 2), a1 |-> R(1, 2), a2 |-> Zero, b1 |-> R(-1, 2), b2 |-> Zero], [a0 |-> One, a1 |-> Zero, a2 |-> R(1, 2), b1 |-> Zero, b2 |-> R(1, 2)]}
FilterParams(filter) == IF filter = "BiquadFilter" THEN BiquadCoeffs ELSE {R(1, 2)}

\* A filter call in a sequence of calls.  ghost keeps the first call of the
\* sequence, whether a call with other arguments followed it, and the filter
\* state the latest call ended with.
Filtered(a, r, first, others, calls) ==
    /\ pc' = "done"
    /\ op' = "Filter"
    /\ args' = a
    /\ ret' = Ok(r.buf)
    /\ ghost' = [kind |-> "filters", first |-> first, others |-> others, calls |-> calls, left |-> r.left]
    /\ UNCHANGED heap

CallFilter ==
    /\ pc = "idle"
    /\ \E filter \in {"BiquadFilter", "LowPassFilter"}, samples \in FilterBufs :
        \E param \in FilterParams(filter) :
            LET a == [filter |-> filter, samples |-> samples, param |-> param]
                r == RunFilter(filter, samples, param, NoFilterState)
            IN  Filtered(a, r, [args |-> a, buf |-> r.buf], FALSE, 1)

CallFilterAgain ==
    /\ pc = "done"
    /\ op = "Filter"
    /\ ghost.calls < MaxFilterCalls
    /\ \E filter \in {"BiquadFilter", "LowPassFilter"}, samples \in FilterBufs :
        \E param \in FilterParams(filter) :
            LET a == [filter |-> filter, samples |-> samples, param |-> param]
                r == RunFilter(filter, samples, param, ghost.left)
            IN  Filtered(a, r, ghost.first, ghost.others \/ a # ghost.first.args, ghost.calls + 1)

\* Claps shorter and longer than the 40 ms their three bursts span.
ClapSettings ==
    [SampleRate : {100, 300}, Duration : {R(1, 100), R(3, 100), R(5, 100), R(1, 10)}, WaveformType : {WaveSine}]

CallGenerateClap ==
    /\ pc = "idle"
    /\ \E cfg \in ClapSettings :
        Returns("GenerateClap", [cfg |-> cfg], GenerateClap(cfg))

RandomDraws == {Zero, R(1, 2)}

CallNewRandom ==
    /\ pc = "idle"
    /\ \E soundType \in Kick..(Lead + 1), sampleRate \in -1..MaxRate,
          bitDepth \in BitDepthArgs, channels \in -1..MaxChannels, rnd \in RandomDraws :
        Returns("NewRandom",
                [soundType |-> soundType, sampleRate |-> sampleRate,
                 bitDepth |-> bitDepth, channels |-> channels],
                NewRandom(soundType, sampleRate, bitDepth, channels, rnd))

CallNewRandomKick ==
    /\ pc = "idle"
    /\ \E sampleRate \in -1..MaxRate, bitDepth \in BitDepthArgs,
          channels \in -1..MaxChannels, rnd \in RandomDraws :
        Returns("NewRandomKick",
                [sampleRate |-> sampleRate, bitDepth |-> bitDepth, channels |-> channels],
                NewRandomKick(sampleRate, bitDepth, channels, rnd))

CallNewRandomSnare ==
    /\ pc = "idle"
    /\ \E sampleRate \in -1..MaxRate, bitDepth \in BitDepthArgs,
          channels \in -1..MaxChannels, rnd \in RandomDraws :
        Returns("NewRandomSnare",
                [sampleRate |-> sampleRate, bitDepth |-> bitDepth, channels |-> channels],
                NewRandomSnare(sampleRate, bitDepth, channels, rnd))

LevelVals == {<<>>, <<One>>, <<R(1, 2)>>, <<R(1, 2), One>>}

LevelSettings ==
    [SampleRate : 1..MaxRate, Duration : DurationVals, WaveformType : 0..MaxWaveform, OscillatorLevels : LevelVals]

CallGenerateKickWaveform ==
    /\ pc = "idle"
    /\ \E cfg \in LevelSettings :
        Returns("GenerateKickWaveform", [cfg |-> cfg], GenerateKickWaveform(cfg))

CallGenerateKickWaveformV1 ==
    /\ pc = "idle"
    /\ \E cfg \in LevelSettings :
        Returns("GenerateKickWaveformV1", [cfg |-> cfg], GenerateKickWaveformV1(cfg))

DelayTimes == {<<0, 1>>, <<1, 2>>}

CallStereoDelay ==
    /\ pc = "idle"
    /\ \E left \in MixBufs, right \in MixBufs, sampleRate \in ModRates,
          delayTimeLeft \in DelayTimes, delayTimeRight \in DelayTimes :
        Returns("StereoDelay",
                [left |-> left, right |-> right, sampleRate |-> sampleRate,
                 delayTimeLeft |-> delayTimeLeft, delayTimeRight |-> delayTimeRight],
                StereoDelay(left, right, sampleRate, delayTimeLeft, delayTimeRight,
                            R(1, 2), R(1, 2)))

Reset ==
    /\ pc # "idle"
    /\ pc' = "idle"
    /\ op' = "none"
    /\ args' = [kind |-> "none"]
    /\ ret' = [kind |-> "none"]
    /\ heap' = NoHeap
    /\ ghost' = NoGhost

Next ==
    \/ CallLinearSummation
    \/ CallWeightedSummation
    \/ CallRMSMixing
    \/ CallDrive
    \/ CallApplyDrive
    \/ CallLimiter
    \/ CallNormalizeSamples
    \/ CallAudioeffectsNormalizeSamples
    \/ CallSidechainCompressor
    \/ CallSchroederReverb
    \/ CallNewSettings
    \/ CallNew808Kick
    \/ CallNewSnareSettings
    \/ CallGenerateKick
    \/ CallGenerateKickV1
    \/ CallGenerateSnare
    \/ CallGenerateTom
    \/ CallGenerateXylophone
    \/ CallApplyEnvelope
    \/ CallEnvelope
    \/ CallPitchShift
    \/ CallPitchModulation
    \/ CallLowPassFilter
    \/ CallApplyFadeIn
    \/ CallApplyFadeOut
    \/ CallFadeIn
    \/ CallLimiterTwice
    \/ CallGenerate
    \/ CallGenerateNoise
    \/ CallSaveToWav
    \/ CallSaveToWavV1
    \/ CallPlayWaveform
    \/ CallFilter
    \/ CallFilterAgain
    \/ CallGenerateClap
    \/ CallNewRandom
    \/ CallNewRandomKick
    \/ CallNewRandomSnare
    \/ CallGenerateKickWaveform
    \/ CallGenerateKickWaveformV1
    \/ CallStereoDelay
    \/ Reset

Spec == Init /\ [][Next]_vars

NextAlias ==
    \/ HeapApplyFadeIn
    \/ HeapApplyFadeOut
    \/ HeapFadeIn
    \/ HeapLimiter
    \/ HeapDrive
    \/ HeapNormalizeSamples
    \/ HeapLowPassFilter
    \/ HeapPadSamples
    \/ HeapCopySettings
    \/ CallerWrite
    \/ Reset

SpecAlias == Init /\ [][NextAlias]_vars

(***************************************************************************)
(* The SDL2 Player (package playsample): goroutines calling the methods of *)
(* one Player.  In this specification pc, op, args and ret are functions   *)
(* of the goroutine: args[p] holds the locals of p's call (audioDeviceID,  *)
(* err), heap holds what the goroutines share: the Player's field, the     *)
(* package variable audioDevice and the state of SDL.  audioDevice points  *)
(* to a local that is assigned once, so it is kept as the device id read   *)
(* through it (0 is nil).  The statements between mut.Lock and mut.Unlock  *)
(* are one step.  A panic ends the program: no step follows it.            *)
(***************************************************************************)
MaxGoroutines == 2
Goroutines == 1..MaxGoroutines

\* SDL's device ids start at 2; a closed device's id is given out again.
DeviceIDs == 2..(MaxGoroutines + 1)

ErrOpenDevice == "could not open audio device"
ErrObtainedSpec == "obtained audio spec does not match desired spec"
ErrQueueAudio == "could not queue audio data"
ErrOpenAudio == "could not open audio"

NoLocals == [audioDeviceID |-> 0, err |-> NoErr]

\* NewPlayer: sdl.Init succeeded or failed.
NewPlayer(ok) ==
    [Initialized |-> ok, sdlUp |-> ok, audioDevice |-> 0, open |-> {}, queued |-> {},
     playing |-> {}, music |-> {}, panic |-> NoPanic]

InitPlayer ==
    /\ pc = [p \in Goroutines |-> "idle"]
    /\ op = [p \in Goroutines |-> "none"]
    /\ args = [p \in Goroutines |-> NoLocals]
    /\ ret = [p \in Goroutines |-> NoErr]
    /\ \E ok \in BOOLEAN :
        /\ heap = NewPlayer(ok)
        /\ ghost = [closed |-> ~ok, late |-> {}, deref |-> [p \in Goroutines |-> 0]]

Running == heap.panic = NoPanic

\* A call begins: its name, fresh locals, and whether it began after Close
\* returned or on a Player that failed to initialize.
Enters(p, name) ==
    /\ op' = [op EXCEPT ![p] = name]
    /\ args' = [args EXCEPT ![p] = NoLocals]
    /\ ghost' = [ghost EXCEPT !.late = IF ghost.closed THEN @ \cup {p} ELSE @ \ {p},
                              !.deref[p] = 0]

\* if !player.Initialized { return errors.New(...) }, or on to the next statement.
Checked(p, next) ==
    IF ~heap.Initialized
    THEN pc' = [pc EXCEPT ![p] = "idle"] /\ ret' = [ret EXCEPT ![p] = ErrNotInitialized]
    ELSE pc' = [pc EXCEPT ![p] = next] /\ ret' = [ret EXCEPT ![p] = NoErr]

PlayWaveformEnter(p) ==
    /\ Running
    /\ pc[p] = "idle"
    /\ Enters(p, "PlayWaveform")
    /\ Checked(p, "open")
    /\ UNCHANGED heap

\* sdl.OpenAudioDevice: the lowest free id, or an error once SDL has quit.
OpenAudioDevice(p) ==
    /\ Running
    /\ pc[p] = "open"
    /\ IF heap.sdlUp /\ DeviceIDs \ heap.open # {}
       THEN LET id == CHOOSE d \in DeviceIDs \ heap.open : \A e \in DeviceIDs \ heap.open : d <= e
            IN  /\ heap' = [heap EXCEPT !.open = @ \cup {id}]
                /\ args' = [args EXCEPT ![p].audioDeviceID = id]
                /\ pc' = [pc EXCEPT ![p] = "publish"]
                /\ UNCHANGED ret
       ELSE /\ pc' = [pc EXCEPT ![p] = "idle"]
            /\ ret' = [ret EXCEPT ![p] = ErrOpenDevice]
            /\ UNCHANGED <<heap, args>>
    /\ UNCHANGED <<op, ghost>>

\* mut.Lock(); audioDevice = &audioDeviceID; mut.Unlock()
Publish(p) ==
    /\ Running
    /\ pc[p] = "publish"
    /\ heap' = [heap EXCEPT !.audioDevice = args[p].audioDeviceID]
    /\ pc' = [pc EXCEPT ![p] = "obtained"]
    /\ UNCHANGED <<op, args, ret, ghost>>

\* The obtained audio spec matches the desired one, or the call returns.
CheckObtained(p) ==
    /\ Running
    /\ pc[p] = "obtained"
    /\ \E matches \in BOOLEAN :
        IF matches
        THEN pc' = [pc EXCEPT ![p] = "queue"] /\ UNCHANGED args
        ELSE /\ pc' = [pc EXCEPT ![p] = "deferred"]
             /\ args' = [args EXCEPT ![p].err = ErrObtainedSpec]
    /\ UNCHANGED <<op, ret, heap, ghost>>

\* sdl.QueueAudio(audioDeviceID, buf.Bytes()), then sdl.PauseAudioDevice(audioDeviceID, false).
QueueAudio(p) ==
    /\ Running
    /\ pc[p] = "queue"
    /\ IF args[p].audioDeviceID \in heap.open
       THEN /\ heap' = [heap EXCEPT !.queued = @ \cup {args[p].audioDeviceID},
                                    !.playing = @ \cup {args[p].audioDeviceID}]
            /\ pc' = [pc EXCEPT ![p] = "wait"]
            /\ UNCHANGED args
       ELSE /\ pc' = [pc EXCEPT ![p] = "deferred"]
            /\ args' = [args EXCEPT ![p].err = ErrQueueAudio]
            /\ UNCHANGED heap
    /\ UNCHANGED <<op, ret, ghost>>

\* for sdl.GetQueuedAudioSize(*audioDevice) > 0 { sdl.Delay(100) }: one
\* evaluation of the condition.  audioDevice is read without the mutex.
WaitQueued(p) ==
    /\ Running
    /\ pc[p] = "wait"
    /\ IF heap.audioDevice = 0
       THEN heap' = [heap EXCEPT !.panic = PanicNil] /\ UNCHANGED <<pc, ghost>>
       ELSE /\ ghost' = [ghost EXCEPT !.deref[p] = heap.audioDevice]
            /\ pc' = [pc EXCEPT ![p] = IF heap.audioDevice \in heap.queued THEN "wait" ELSE "deferred"]
            /\ UNCHANGED heap
    /\ UNCHANGED <<op, args, ret>>

\* The deferred function, under the mutex: if *audioDevice == audioDeviceID
\* { audioDevice = nil }; sdl.CloseAudioDevice(audioDeviceID).  Then the
\* call returns err.
Deferred(p) ==
    /\ Running
    /\ pc[p] = "deferred"
    /\ IF heap.audioDevice = 0
       THEN heap' = [heap EXCEPT !.panic = PanicNil] /\ UNCHANGED <<pc, ret, ghost>>
       ELSE /\ ghost' = [ghost EXCEPT !.deref[p] = heap.audioDevice]
            /\ heap' = [heap EXCEPT
                   !.audioDevice = IF @ = args[p].audioDeviceID THEN 0 ELSE @,
                   !.open = @ \ {args[p].audioDeviceID},
                   !.queued = @ \ {args[p].audioDeviceID},
                   !.playing = @ \ {args[p].audioDeviceID}]
            /\ pc' = [pc EXCEPT ![p] = "idle"]
            /\ ret' = [ret EXCEPT ![p] = args[p].err]
    /\ UNCHANGED <<op, args>>

\* The audio callback of a playing device takes the queued data.
Drain(d) ==
    /\ Running
    /\ d \in heap.playing \cap heap.queued
    /\ heap' = [heap EXCEPT !.queued = @ \ {d}]
    /\ UNCHANGED <<pc, op, args, ret, ghost>>

\* PlayWav and GeneratePlay up to the start of the playback.
PlayWavEnter(p) ==
    /\ Running
    /\ pc[p] = "idle"
    /\ Enters(p, "PlayWav")
    /\ Checked(p, "music")
    /\ UNCHANGED heap

GeneratePlayEnter(p) ==
    /\ Running
    /\ pc[p] = "idle"
    /\ Enters(p, "GeneratePlay")
    /\ Checked(p, "music")
    /\ UNCHANGED heap

\* mix.OpenAudio, mix.LoadMUS and music.Play: the music plays, or the call
\* returns the error (SDL has quit).
StartMusic(p) ==
    /\ Running
    /\ pc[p] = "music"
    /\ IF heap.sdlUp
       THEN /\ heap' = [heap EXCEPT !.music = @ \cup {p}]
            /\ pc' = [pc EXCEPT ![p] = "playing"]
            /\ UNCHANGED ret
       ELSE /\ pc' = [pc EXCEPT ![p] = "idle"]
            /\ ret' = [ret EXCEPT ![p] = ErrOpenAudio]
            /\ UNCHANGED heap
    /\ UNCHANGED <<op, args, ghost>>

\* for mix.PlayingMusic() { sdl.Delay(100) } ends; the call returns nil.
MusicDone(p) ==
    /\ Running
    /\ pc[p] = "playing"
    /\ heap' = [heap EXCEPT !.music = @ \ {p}]
    /\ pc' = [pc EXCEPT ![p] = "idle"]
    /\ UNCHANGED <<op, args, ret, ghost>>

\* A Close that quits SDL and leaves the Player marked as initialized.
ClosedQuitOnly(h) == h

\* player.Initialized = false
Closed(h) == [h EXCEPT !.Initialized = FALSE]

\* Player.Close, first statement: sdl.Quit() closes every device.
CloseQuit(p) ==
    /\ Running
    /\ pc[p] = "idle"
    /\ op' = [op EXCEPT ![p] = "Close"]
    /\ pc' = [pc EXCEPT ![p] = "closing"]
    /\ heap' = [heap EXCEPT !.sdlUp = FALSE, !.open = {}, !.queued = {}, !.playing = {}, !.music = {}]
    /\ ghost' = [ghost EXCEPT !.late = @ \ {p}]
    /\ UNCHANGED <<args, ret>>

\* Player.Close, second statement, and its return.
CloseReturn(p) ==
    /\ Running
    /\ pc[p] = "closing"
    /\ heap' = Closed(heap)
    /\ pc' = [pc EXCEPT ![p] = "idle"]
    /\ ret' = [ret EXCEPT ![p] = NoErr]
    /\ ghost' = [ghost EXCEPT !.closed = TRUE]
    /\ UNCHANGED <<op, args>>

NextPlayer ==
    \/ \E p \in Goroutines : PlayWaveformEnter(p)
    \/ \E p \in Goroutines : OpenAudioDevice(p)
    \/ \E p \in Goroutines : Publish(p)
    \/ \E p \in Goroutines : CheckObtained(p)
    \/ \E p \in Goroutines : QueueAudio(p)
    \/ \E p \in Goroutines : WaitQueued(p)
    \/ \E p \in Goroutines : Deferred(p)
    \/ \E d \in DeviceIDs : Drain(d)
    \/ \E p \in Goroutines : PlayWavEnter(p)
    \/ \E p \in Goroutines : GeneratePlayEnter(p)
    \/ \E p \in Goroutines : StartMusic(p)
    \/ \E p \in Goroutines : MusicDone(p)
    \/ \E p \in Goroutines : CloseQuit(p)
    \/ \E p \in Goroutines : CloseReturn(p)

SpecPlayer == InitPlayer /\ [][NextPlayer]_vars

(***************************************************************************)
(* Properties.                                                             *)
(***************************************************************************)
MixOps == {"LinearSummation", "WeightedSummation", "RMSMixing"}
VoiceOps == {"GenerateKick", "GenerateKickV1", "GenerateSnare", "GenerateTom",
             "GenerateXylophone"}
SettingsOps == {"NewSettings", "New808Kick", "NewSnareSettings"}

LengthsDiffer(samples) ==
    \E j, k \in 1..Len(samples) : Len(samples[j]) # Len(samples[k])

AllInUnit(buf) == \A i \in 1..Len(buf) : InUnit(buf[i])

\* C1: a mixing call (LinearSummation, WeightedSummation with as many weights
\* as buffers, RMSMixing) on two or more buffers whose lengths are not all
\* equal fails with the mismatched-length error, whichever buffer differs and
\* whatever its length, a buffer of length zero in any position included.
C1_MismatchedLengthsFail ==
    (/\ pc = "done"
     /\ op \in MixOps
     /\ op = "WeightedSummation" => Len(args.weights) = Len(args.samples)
     /\ Len(args.samples) >= 2
     /\ LengthsDiffer(args.samples))
    => ret.err = ErrMismatch

\* C2: whenever a mixing, reverb or voice-synthesis call reports an error, the
\* buffer returned with it is nil: no partly computed samples come back.
C2_NoBufferWithError ==
    (/\ pc = "done"
     /\ op \in MixOps \cup VoiceOps \cup {"SchroederReverb"}
     /\ ret.err # NoErr)
    => (ret.nilbuf /\ ret.buf = <<>>)

\* C2 witness: LinearSummation had allocated its output buffer when it found
\* the mismatch, and returned nil with the error.
C2_Witness ==
    /\ pc = "done"
    /\ op = "LinearSummation"
    /\ ret.err = ErrMismatch
    /\ Len(args.samples[1]) > 0
    /\ ret.nilbuf

ClampedOps == {"Drive", "ApplyDrive", "Limiter", "NormalizeSamples"} \cup MixOps

Implemented(voice) ==
    CASE voice = "GenerateKick" -> WaveSine..WaveBrownNoise
      [] voice \in {"GenerateKickV1", "GenerateSnare"} -> WaveSine..WaveSquare
      [] OTHER -> {WaveSine}

\* C4: a voice routine asked for a WaveformType it does not implement aborts
\* with the error naming the type; it never returns a buffer made with
\* another waveform, with silence or with any other default.
C4_UnsupportedWaveformFails ==
    (/\ pc = "done"
     /\ op \in VoiceOps
     /\ args.cfg.WaveformType \notin Implemented(op))
    => (ret.err = ErrUnsupported(args.cfg.WaveformType) /\ ret.nilbuf)

\* C5: after c := CopySettings(s), a write to an element of a sequence field
\* of s (OscillatorLevels, FilterBands) never changes what c holds, and a
\* write to an element of a sequence field of c never changes s.
C5_CopyOwnsItsSequences ==
    (pc = "written" /\ op = "CopySettings")
    => /\ ghost.writer = "s" =>
              \A f \in SliceFields : heap[ret.cfg[f]] = ghost.after[f]
       /\ ghost.writer = "c" =>
              \A f \in SliceFields : heap[args.cfg[f]] = ghost.before[f]

\* C6: every buffer transform leaves its input buffer as it was: after
\* y := f(x) the caller's x holds the samples it held before the call, and a
\* later write to y does not alter x.
C6_InputUntouched ==
    (pc # "idle" /\ ghost.kind = "transform")
    => \A k \in 1..Len(args.in) : heap[args.in[k]] = ghost.before[k]

\* C7: Settings construction fails with an error and returns no Settings
\* whenever the sample rate, the duration or the channel count is
\* non-positive.
C7_InvalidSettingsRejected ==
    (/\ pc = "done"
     /\ op \in SettingsOps
     /\ (args.sampleRate <= 0 \/ RLe(args.duration, Zero) \/ args.channels <= 0))
    => (ret.err # NoErr /\ ret.nilcfg)

\* C7 witness: NewSettings refused a call whose only fault was the channel count.
C7_Witness ==
    /\ pc = "done"
    /\ op = "NewSettings"
    /\ args.sampleRate > 0
    /\ RGt(args.duration, Zero)
    /\ args.channels <= 0
    /\ ret.nilcfg
    /\ ret.err = ErrInvalidSettings

\* C8: sidechain compression of a target and a trigger of different lengths
\* fails: the mismatch is reported, no buffer comes back as from a success.
C8_SidechainMismatchFails ==
    (/\ pc = "done"
     /\ op = "SidechainCompressor"
     /\ Len(args.target) # Len(args.trigger))
    => ret.err # NoErr

\* C9: SchroederReverb reports an error unless it is given exactly 4 comb
\* delays and exactly 2 all-pass delays; any other pair of counts is rejected
\* with no sample processed.
C9_ReverbCountsChecked ==
    (pc = "done" /\ op = "SchroederReverb")
    => /\ (Len(args.combDelays) = 4 /\ Len(args.allPassDelays) = 2)
              <=> ret.err = NoErr
       /\ ret.err # NoErr => (ret.err = ErrReverb /\ ret.nilbuf)

\* C9 witness: one comb delay too many, samples to process, and the error.
C9_Witness ==
    /\ pc = "done"
    /\ op = "SchroederReverb"
    /\ Len(args.combDelays) = 5
    /\ Len(args.allPassDelays) = 2
    /\ Len(args.samples) > 0
    /\ ret.err = ErrReverb

\* C10: for every buffer x and every drive amount that is zero or negative,
\* the drive stage returns x unchanged, sample for sample.
C10_NoDriveIsIdentity ==
    (/\ pc = "done"
     /\ op \in {"Drive", "ApplyDrive"}
     /\ RLe(args.gain, Zero))
    => ret.buf = args.samples

\* C11: WeightedSummation called with a number of weights different from the
\* number of buffers fails with the weight-count error, for every pair of
\* counts (no weights or no buffers included) and whatever the buffers'
\* lengths are.
C11_WeightCountChecked ==
    (/\ pc = "done"
     /\ op = "WeightedSummation"
     /\ Len(args.weights) # Len(args.samples))
    => (ret.err = ErrWeights /\ ret.nilbuf)

\* C11 witness: fewer weights than buffers, the buffers of unequal lengths,
\* and the weight-count error is the one reported.
C11_Witness ==
    /\ pc = "done"
    /\ op = "WeightedSummation"
    /\ Len(args.weights) < Len(args.samples)
    /\ LengthsDiffer(args.samples)
    /\ ret.err = ErrWeights

LengthOps == {"ApplyEnvelope", "audioeffects.Envelope", "LowPassFilter", "Drive",
              "ApplyFadeIn", "ApplyFadeOut", "audioeffects.FadeIn",
              "PitchShift", "PitchModulation"}

\* C12: the envelope, filter, drive, fade and modulation transforms never
\* change the buffer length: for every input buffer and every parameter
\* value the call returns a buffer and len(output) = len(input).
C12_LengthPreserved ==
    (pc = "done" /\ op \in LengthOps)
    => (ret.panic = NoPanic /\ Len(ret.buf) = Len(args.samples))

Max(m, n) == IF m > n THEN m ELSE n

\* wave followed by zeros up to length n.
ZeroPadded(wave, n) == [k \in 1..n |-> IF k <= Len(wave) THEN wave[k] ELSE Zero]

\* C13: PadSamples(a, b) returns two buffers of length max(len(a), len(b));
\* the one that was shorter keeps its samples at the start and is zero after
\* them, the longer one comes back with its samples unchanged.
C13_PaddedToLonger ==
    (pc = "done" /\ op = "PadSamples")
    => LET a == ghost.before[1]
           b == ghost.before[2]
           n == Max(Len(a), Len(b))
       IN  /\ ghost.after[1] = ZeroPadded(a, n)
           /\ ghost.after[2] = ZeroPadded(b, n)

\* C13 witness: a one-sample buffer padded to the length of a two-sample one.
C13_Witness ==
    /\ pc = "done"
    /\ op = "PadSamples"
    /\ Len(ghost.before[1]) = 1
    /\ Len(ghost.before[2]) = 2
    /\ ghost.after[1] = <<ghost.before[1][1], Zero>>
    /\ ghost.after[2] = ghost.before[2]

EnvelopeOps == {"ApplyEnvelope", "audioeffects.Envelope"}

\* A float64 that is a number: no division by zero went into it.
IsNumber(x) == x[2] > 0

\* C14: with attack = 0 the envelope value of the first sample (t = 0) is 1,
\* both in the whole-buffer transform and in the point evaluation, and no
\* division by zero goes into it, for every decay, sustain and release
\* setting, decay = 0 included.
C14_ZeroAttackStartsAtOne ==
    (/\ pc = "done"
     /\ op \in EnvelopeOps
     /\ args.attack = Zero
     /\ Len(args.samples) > 0)
    => /\ IsNumber(ret.points[1]) /\ IsNumber(ret.buf[1])
       /\ ret.points[1] = One
       /\ ret.buf[1] = args.samples[1]

\* C15: the two envelope interfaces agree: on a buffer of duration*sampleRate
\* samples the whole-buffer transform multiplies the sample at index i by the
\* value the point evaluation returns for t = i/sampleRate, for every index
\* and every attack, decay, sustain and release setting.
C15_EnvelopeInterfacesAgree ==
    (pc = "done" /\ op \in EnvelopeOps)
    => \A k \in 1..Len(args.samples) :
           ret.buf[k] = RMul(args.samples[k], ret.points[k])

\* attack + decay + release exceeds the duration of the buffer.
EnvelopeTooLong(a) ==
    RGt(RAdd(a.attack, RAdd(a.decay, a.release)),
        RDiv(RInt(Len(a.samples)), RInt(a.sampleRate)))

\* C16: when attack + decay + release exceeds the buffer's duration the
\* envelope transform does not fail; it returns a buffer of the input's
\* length in which the sustain phase is empty: no sample gets its level from
\* the sustain phase between decay and release.
C16_NoSustainWhenTooLong ==
    (pc = "done" /\ op \in EnvelopeOps /\ EnvelopeTooLong(args))
    => /\ ret.err = NoErr /\ ret.panic = NoPanic
       /\ Len(ret.buf) = Len(args.samples)
       /\ \A k \in 1..Len(ret.phases) : ret.phases[k] # "sustain"

\* C17: a linear fade-in over F = int(fadeDuration * sampleRate) samples, F
\* not larger than the buffer length, multiplies the sample at every index
\* i < F by i/F and leaves every sample at an index >= F as it was.
C17_LinearFadeIn ==
    (/\ pc = "done"
     /\ op \in {"ApplyFadeIn", "audioeffects.FadeIn"}
     /\ args.curve = "LinearFade"
     /\ RTrunc(RMul(args.fadeDuration, RInt(args.sampleRate))) <= Len(args.samples))
    => LET F == RTrunc(RMul(args.fadeDuration, RInt(args.sampleRate)))
       IN  /\ Len(ret.buf) = Len(args.samples)
           /\ \A k \in 1..Len(args.samples) :
                  ret.buf[k] = IF k - 1 < F
                               THEN RMul(args.samples[k], R(k - 1, F))
                               ELSE args.samples[k]

\* C17 witness: a fade over 2 samples of a longer buffer: the second sample
\* is halved and the sample after the fade is untouched.
C17_Witness ==
    /\ pc = "done"
    /\ op = "ApplyFadeIn"
    /\ args.curve = "LinearFade"
    /\ RTrunc(RMul(args.fadeDuration, RInt(args.sampleRate))) = 2
    /\ Len(args.samples) > 2
    /\ ret.buf[1] = Zero
    /\ ret.buf[2] = RMul(args.samples[2], R(1, 2))
    /\ ret.buf[3] = args.samples[3]

\* The sum of the samples at position i of the first j buffers.
RECURSIVE SumAt(_, _, _)
SumAt(samples, i, j) ==
    IF j = 0 THEN Zero ELSE RAdd(SumAt(samples, i, j - 1), samples[j][i])

MeanAt(samples, i) == RDiv(SumAt(samples, i, Len(samples)), RInt(Len(samples)))

IsPeak(buf, p) ==
    /\ \E k \in 1..Len(buf) : RAbs(buf[k]) = p
    /\ \A k \in 1..Len(buf) : RLe(RAbs(buf[k]), p)

C20_LimiterIdempotent ==
    /\ (pc = "done" /\ op = "LimiterTwice")
           => /\ ret.buf = ret.once
              /\ AllInUnit(args.samples) => ret.once = args.samples
    /\ (pc = "done" /\ op = "Limiter" /\ AllInUnit(args.samples))
           => ret.buf = args.samples

\* C20 witness: a buffer with a sample outside [-1,1], which the first pass
\* changed and the second pass left alone.
C20_Witness ==
    /\ pc = "done"
    /\ op = "LimiterTwice"
    /\ \E k \in 1..Len(args.samples) : ~InUnit(args.samples[k])
    /\ ret.once # args.samples
    /\ ret.buf = ret.once

C22_NoiseWithinAmount ==
    (pc = "done" /\ op = "GenerateNoise" /\ RLe(Zero, args.amount))
    => /\ Len(ret.buf) = Len(args.rands)
       /\ \A i \in 1..Len(ret.buf) : RLe(RAbs(ret.buf[i]), args.amount)

\* C22 witness: pink noise whose filter sum went below -amount was clamped
\* to -amount.
C22_Witness ==
    /\ pc = "done"
    /\ op = "GenerateNoise"
    /\ args.noiseType = NoisePink
    /\ args.amount = One
    /\ \E i \in 1..Len(ret.buf) :
        /\ ret.buf[i] = MinusOne
        /\ \A j \in 1..i : args.rands[j] = Zero

PcmOps == {"SaveToWav", "SaveToWavV1", "PlayWaveform"}

\* The integer a sample was clamped to: the largest value of the bit depth
\* for a sample of 1 or more, the smallest or its successor for -1 or less.
ClampedTo(sample, x, bitDepth) ==
    /\ RLe(One, sample) => x = MaxIntValue(bitDepth)
    /\ RLe(sample, MinusOne) => x \in {-MaxIntValue(bitDepth) - 1, -MaxIntValue(bitDepth)}

\* C23: for every bit depth in {8, 16, 24, 32} and every input sample, values
\* outside [-1,1] included, the integer the conversion produces lies in
\* [-2^(bitDepth-1), 2^(bitDepth-1) - 1], and out-of-range input is clamped,
\* never wrapped.
C23_ConversionClamps ==
    (pc = "done" /\ op \in PcmOps /\ ret.err = NoErr)
    => \A i \in 1..Len(ret.data) :
        /\ ret.data[i] \in (-MaxIntValue(args.bitDepth) - 1)..MaxIntValue(args.bitDepth)
        /\ ClampedTo(args.samples[i], ret.data[i], args.bitDepth)

\* C24: no filter keeps memory across calls.  Each call starts from zeroed
\* internal state, so in any sequence of filter calls, two calls with the
\* same filter, parameters and input buffer return the same output, whatever
\* was filtered in between.
C24_NoMemoryAcrossCalls ==
    (pc = "done" /\ op = "Filter" /\ args = ghost.first.args) => ret.buf = ghost.first.buf

\* C24 witness: the third call of a sequence repeats the first one after a
\* call with other arguments; it ends with a filter state that is not zero
\* and returns a buffer that is not silence, equal to the first call's.
C24_Witness ==
    /\ pc = "done"
    /\ op = "Filter"
    /\ args.filter = "BiquadFilter"
    /\ ghost.calls = 3
    /\ ghost.others
    /\ args = ghost.first.args
    /\ ghost.left # NoFilterState
    /\ Len(ret.buf) = 2
    /\ ret.buf[2] # Zero
    /\ ret.buf = ghost.first.buf

InPlayWaveform(p) == op[p] = "PlayWaveform" /\ pc[p] # "idle"

\* C25: when two or more PlayWaveform calls run concurrently, each call waits
\* for and closes only the audio device it opened itself, and no call ever
\* dereferences the global audioDevice pointer while it is nil or while it
\* refers to another call's device.
C25_OwnDeviceOnly ==
    /\ heap.panic = NoPanic
    /\ \A p \in Goroutines :
        InPlayWaveform(p) => ghost.deref[p] \in {0, args[p].audioDeviceID}

PlayOps == {"PlayWav", "PlayWaveform", "GeneratePlay"}

C26_ClapCompletes ==
    (/\ pc = "done"
     /\ op = "GenerateClap"
     /\ args.cfg.SampleRate > 0
     /\ RGt(args.cfg.Duration, Zero))
    => (/\ ret.panic = NoPanic
        /\ ret.err = NoErr
        /\ ~ret.nilbuf
        /\ Len(ret.buf) = NumSamples(args.cfg))

RandomOps == {"NewRandom", "NewRandomKick", "NewRandomSnare"}

\* C27: for any sampleRate, bitDepth and channels, NewRandom, NewRandomKick
\* and NewRandomSnare either return a non-nil Settings or report the invalid
\* parameters; they never write through the nil Settings of a failed NewSettings.
C27_RandomNeverDerefsNil ==
    (pc = "done" /\ op \in RandomOps)
        => (/\ ret.panic = NoPanic
            /\ (~ret.nilcfg \/ ret.err # NoErr))

KickLevelOps == {"GenerateKickWaveform", "GenerateKickWaveformV1"}

\* C28: kick synthesis on a Settings whose OscillatorLevels is empty completes
\* without an out-of-bounds access, and every sample it produced went through
\* at unity gain.
C28_EmptyLevelsUnityGain ==
    (pc = "done" /\ op \in KickLevelOps /\ Len(args.cfg.OscillatorLevels) = 0)
        => (/\ ret.panic = NoPanic
            /\ \A i \in 1..Len(ret.gains) : ret.gains[i] = One)

DelayLineOps == {"SchroederReverb", "PitchModulation", "StereoDelay"}

\* C29: a delay-line effect (SchroederReverb, PitchModulation, StereoDelay)
\* that accepts its arguments without reporting an error never indexes a
\* delay buffer or a channel buffer out of bounds and never takes a modulo by
\* a buffer length of zero.
C29_DelayLinesInBounds ==
    (pc = "done" /\ op \in DelayLineOps /\ ret.err = NoErr)
        => ret.panic \notin {PanicIndex, PanicDivZero}

=============================================================================
